---- MODULE Spec2Model ----
(***************************************************************************)
(* Multi-tenant SaaS toolkit: tenant context propagation                   *)
(* (TenantContextManager over AsyncLocalStorage), the role manager, the    *)
(* ABAC policy engine and the authorization manager that combines them.    *)
(*                                                                         *)
(* JavaScript strings are sequences of one-character strings, so that the  *)
(* regular expressions built from permission and policy patterns and the   *)
(* joins that build cache keys are computed character by character.        *)
(***************************************************************************)
EXTENDS Integers, Sequences, FiniteSets, TLC

VARIABLES
  acts,          \* async function activations (fn bodies and top-level tasks)
  stack,         \* the worker's synchronous call stack of activations
  current,       \* AsyncLocalStorage: the store of the executing async context
  roles,         \* RoleManager.roles: role name -> declared permissions
  hierarchy,     \* RoleManager.permissionHierarchy: permission -> implied set
  policies,      \* PolicyEngine.policies, in Map insertion order
  defaultDeny,   \* AuthorizationManager.defaultDeny
  cacheEnabled,  \* AuthorizationManager.cacheEnabled
  cacheTTL,      \* AuthorizationManager.cacheTTL (ms)
  cache,         \* AuthorizationManager.cache: key -> {decision, timestamp}
  now,           \* Date.now() (ms)
  last,          \* the last call made and what it returned or threw
  auditStore,    \* the InMemoryAuditStore of the AuditLogger: events, maxEvents
  calls          \* invocations of a method decorated with @AuditAction

ctxVars == <<acts, stack, current>>
rbacVars == <<roles, hierarchy>>
mgrVars == <<defaultDeny, cacheEnabled, cacheTTL, cache, now>>
authVars == <<roles, hierarchy, policies, defaultDeny, cacheEnabled, cacheTTL,
              cache, now, last>>
auditVars == <<auditStore, calls>>
vars == <<acts, stack, current, roles, hierarchy, policies, defaultDeny,
          cacheEnabled, cacheTTL, cache, now, last, auditStore, calls>>

(***************************************************************************)
(* Bounds.                                                                 *)
(***************************************************************************)
MaxAct == 3
MaxPolicies == 3
MaxNow == 2
MaxCache == 2
MaxStored == 3
MaxCalls == 2

(***************************************************************************)
(* Strings.                                                                *)
(***************************************************************************)
\* the string literals of the sources and of the inputs, each as the sequence
\* of its characters
Str ==
  [A |-> <<"A">>,
   B |-> <<"B">>,
   u1 |-> <<"u","1">>,
   u2 |-> <<"u","2">>,
   d1 |-> <<"d","1">>,
   d2 |-> <<"d","2">>,
   doc |-> <<"d","o","c">>,
   e1 |-> <<"e","1">>,
   e2 |-> <<"e","2">>,
   admin |-> <<"a","d","m","i","n">>,
   member |-> <<"m","e","m","b","e","r">>,
   viewer |-> <<"v","i","e","w","e","r">>,
   ops |-> <<"o","p","s">>,
   tenant_manage |-> <<"t","e","n","a","n","t",":","m","a","n","a","g","e">>,
   users_read |-> <<"u","s","e","r","s",":","r","e","a","d">>,
   users_write |-> <<"u","s","e","r","s",":","w","r","i","t","e">>,
   users_delete |-> <<"u","s","e","r","s",":","d","e","l","e","t","e">>,
   users_invite |-> <<"u","s","e","r","s",":","i","n","v","i","t","e">>,
   roles_manage |-> <<"r","o","l","e","s",":","m","a","n","a","g","e">>,
   billing_manage |-> <<"b","i","l","l","i","n","g",":","m","a","n","a","g","e">>,
   settings_manage |-> <<"s","e","t","t","i","n","g","s",":","m","a","n","a","g","e">>,
   data_read |-> <<"d","a","t","a",":","r","e","a","d">>,
   data_write |-> <<"d","a","t","a",":","w","r","i","t","e">>,
   data_delete |-> <<"d","a","t","a",":","d","e","l","e","t","e">>,
   settings_read |-> <<"s","e","t","t","i","n","g","s",":","r","e","a","d">>,
   billing_read |-> <<"b","i","l","l","i","n","g",":","r","e","a","d">>,
   users_star |-> <<"u","s","e","r","s",":","*">>,
   star |-> <<"*">>,
   read |-> <<"r","e","a","d">>,
   write |-> <<"w","r","i","t","e">>,
   delete |-> <<"d","e","l","e","t","e">>,
   users_NLread |-> <<"u","s","e","r","s",":","\n","r","e","a","d">>,
   empty |-> <<>>,
   anonymous |-> <<"a","n","o","n","y","m","o","u","s">>,
   allow_doc |-> <<"a","l","l","o","w","-","d","o","c">>,
   deny_doc |-> <<"d","e","n","y","-","d","o","c">>,
   owner_doc |-> <<"o","w","n","e","r","-","d","o","c">>,
   deny_u2 |-> <<"d","e","n","y","-","u","2">>,
   allow_project |-> <<"a","l","l","o","w","-","p","r","o","j","e","c","t">>,
   allow_all |-> <<"a","l","l","o","w","-","a","l","l">>,
   project |-> <<"p","r","o","j","e","c","t">>,
   docstar |-> <<"d","o","c","*">>,
   ghost |-> <<"g","h","o","s","t">>,
   success |-> <<"s","u","c","c","e","s","s">>,
   failure |-> <<"f","a","i","l","u","r","e">>,
   admin_star |-> <<"a","d","m","i","n",":","*">>,
   tenant_read |-> <<"t","e","n","a","n","t",":","r","e","a","d">>,
   projects_manage |-> <<"p","r","o","j","e","c","t","s",":","m","a","n","a","g","e">>,
   projects_read |-> <<"p","r","o","j","e","c","t","s",":","r","e","a","d">>,
   projects_write |-> <<"p","r","o","j","e","c","t","s",":","w","r","i","t","e">>,
   projects_delete |-> <<"p","r","o","j","e","c","t","s",":","d","e","l","e","t","e">>,
   users_manage |-> <<"u","s","e","r","s",":","m","a","n","a","g","e">>]

\* JavaScript `undefined`
Undefined == [t |-> "undefined"]

(***************************************************************************)
(* TenantContext values (types.ts: tenant, user?, roles?).                 *)
(***************************************************************************)
\* JavaScript values: null, booleans, numbers, strings, arrays, plain
\* objects, Dates and functions (an optional value is one of these or Undefined)
JsNull == [t |-> "null"]
JsBool(b) == [t |-> "boolean", v |-> b]
JsNum(n) == [t |-> "number", v |-> n]
JsStr(str) == [t |-> "string", v |-> str]
JsArr(items) == [t |-> "array", v |-> items]
JsObj(fields) == [t |-> "object", v |-> fields]
JsDate(ms) == [t |-> "date", v |-> ms]
JsFn(name) == [t |-> "function", name |-> name]

\* interface User: id, and the optional email as a JavaScript value
MkUser(id, email) == [id |-> id, email |-> email]

\* interface TenantContext: user is a User or Undefined, roles an array of
\* role names or Undefined

MkContext(tenantId, user, rolesOpt) ==
  [tenant |-> [id |-> tenantId], user |-> user, roles |-> rolesOpt]

CtxA == MkContext(Str.A, MkUser(Str.u1, JsStr(Str.e1)), JsArr(<<Str.admin>>))

\* a context with a tenant only: no user, no roles
CtxNoRoles == MkContext(Str.B, Undefined, Undefined)

RunContexts == {CtxA, CtxNoRoles}

(***************************************************************************)
(* TenantContextManager (tenant-context.ts, quoted in the core README).    *)
(* AsyncLocalStorage.run(store, fn) saves the store of the executing async *)
(* context, installs `store` for the synchronous extent of fn and restores *)
(* the saved store in a finally clause.  Every continuation created while  *)
(* a store is installed captures it and runs with it when resumed.         *)
(***************************************************************************)
ActIds == 1..MaxAct
Errors == {"E1", "E2"}
NoError == "none"

NoRecv == [from |-> 0, out |-> "none", err |-> NoError]

UnusedAct ==
  [pc |-> "unused", ctx |-> Undefined, parent |-> 0, saved |-> Undefined,
   inRun |-> FALSE, sync |-> FALSE, cap |-> Undefined,
   waiting |-> 0, out |-> "none", err |-> NoError, recv |-> NoRecv,
   consumed |-> FALSE]

Top == stack[Len(stack)]
Pop == SubSeq(stack, 1, Len(stack) - 1)

\* the lowest activation id not yet in use (ids are handed out in order)
IsFresh(a) == acts[a].pc = "unused" /\ \A b \in ActIds : b < a => acts[b].pc # "unused"

\* storage.getStore()
getStore == current

\* getContext(): return this.storage.getStore()
getContext == getStore

\* getCurrentTenantId(): this.storage.getStore()?.tenant?.id
getCurrentTenantId ==
  IF getStore = Undefined THEN Undefined ELSE getStore.tenant.id

\* getCurrentRoles(): this.storage.getStore()?.roles || []
getCurrentRoles ==
  IF getStore = Undefined THEN <<>>
  ELSE IF getStore.roles = Undefined THEN <<>>
  ELSE getStore.roles.v

\* hasAnyRole(roles): roles.some(role => currentRoles.includes(role))
hasAnyRole(rs) ==
  \E i \in 1..Len(rs) : \E j \in 1..Len(getCurrentRoles) : getCurrentRoles[j] = rs[i]

hasAllRolesOfSome(rs) ==
  /\ rs # <<>>
  /\ \A i \in 1..Len(rs) : \E j \in 1..Len(getCurrentRoles) : getCurrentRoles[j] = rs[i]
\* hasAllRoles(roles): roles.every(role => currentRoles.includes(role))
hasAllRoles(rs) ==
  \A i \in 1..Len(rs) : \E j \in 1..Len(getCurrentRoles) : getCurrentRoles[j] = rs[i]

\* storage.run(context, fn), on entry: the store installed for fn
EnterStore(context) == context

RunExitKeep(a, threw) == current
RunExitOnReturnOnly(a, threw) == IF threw THEN current ELSE acts[a].saved
\* storage.run(context, fn), on exit (finally): the store put back, whether
\* fn returned (a value or a promise) or threw
RunExit(a, threw) == acts[a].saved

\* the store a continuation captures when the activation suspends at an await
CaptureStore == current

ResumeStoreLost(a) == Undefined
\* the store a resumed continuation runs with
ResumeStore(a) == acts[a].cap

\* run/runAsync hand what fn returned or threw (out, e) to the caller as it
\* is: `return this.storage.run(context, fn)`
Deliver(c, out, e) == [from |-> c, out |-> out, err |-> e]

\* an exception or a value of fn reaches the caller synchronously only
\* through run() with a synchronous fn; runAsync (an async method) and async
\* fns hand the caller a promise
SyncDelivery(via, kind) == via = "run" /\ kind = "sync"

(***************************************************************************)
(* JavaScript arrays, Sets, Maps and strings.                              *)
(***************************************************************************)
\* Array.prototype.includes
Includes(arr, x) == \E i \in 1..Len(arr) : arr[i] = x

\* Set.prototype.add on an insertion-ordered, duplicate-free sequence
SetAdd(set, x) == IF Includes(set, x) THEN set ELSE Append(set, x)

RECURSIVE SetAddAll(_, _)
\* xs.forEach(x => set.add(x)); new Set(xs) is SetAddAll(<<>>, xs)
SetAddAll(set, xs) ==
  IF xs = <<>> THEN set ELSE SetAddAll(SetAdd(set, Head(xs)), Tail(xs))

\* an empty Map
EmptyMap == [k \in {} |-> Undefined]

\* Map.prototype.has / get / set (no iteration order)
MapHas(map, key) == key \in DOMAIN map
MapGet(map, key) == IF key \in DOMAIN map THEN map[key] ELSE Undefined
MapSet(map, key, value) ==
  [k \in DOMAIN map \cup {key} |-> IF k = key THEN value ELSE map[k]]

RECURSIVE Join(_, _)
\* Array.prototype.join(sep) (and the concatenation of token lists)
Join(parts, sep) ==
  IF parts = <<>> THEN <<>>
  ELSE IF Len(parts) = 1 THEN parts[1]
  ELSE parts[1] \o sep \o Join(Tail(parts), sep)

RECURSIVE Split(_, _)
\* String.prototype.split(sep) for a one-character separator
Split(str, sep) ==
  IF \A i \in 1..Len(str) : str[i] # sep THEN <<str>>
  ELSE LET i == CHOOSE i \in 1..Len(str) :
                  str[i] = sep /\ \A j \in 1..(i - 1) : str[j] # sep
       IN <<SubSeq(str, 1, i - 1)>> \o Split(SubSeq(str, i + 1, Len(str)), sep)

(***************************************************************************)
(* The regular expression both matchers build from a pattern: the pattern  *)
(* is split at its stars, every part is escaped, the parts are joined with *)
(* dot-star and the result is anchored at both ends.  A regular expression *)
(* is a sequence of tokens: lit matches its character, dotstar any run of  *)
(* characters that are no line terminators (the regular expression has no  *)
(* s flag).                                                                *)
(***************************************************************************)
\* the line terminators among the characters of the inputs
LineTerminators == {"\n", "\r"}

Lit(ch) == [k |-> "lit", c |-> ch]
DotStar == [k |-> "dotstar", c |-> ".*"]

RECURSIVE EscapePart(_)
\* part.replace(/[.*+?^${}()|[\]\\]/g, '\\$&'): every regex metacharacter is
\* escaped, so every character of the part matches only itself
EscapePart(part) ==
  IF part = <<>> THEN <<>>
  ELSE <<Lit(Head(part))>> \o EscapePart(Tail(part))

RECURSIVE MapEscape(_)
MapEscape(parts) ==
  IF parts = <<>> THEN <<>>
  ELSE <<EscapePart(Head(parts))>> \o MapEscape(Tail(parts))

\* new RegExp(`^${regexPattern}$`)
PatternRegex(pattern) == Join(MapEscape(Split(pattern, "*")), <<DotStar>>)

RECURSIVE RegexTest(_, _)
\* regex.test(str) for an anchored token sequence
RegexTest(re, str) ==
  IF re = <<>> THEN str = <<>>
  ELSE LET t == Head(re) IN
       CASE t.k = "lit" ->
              str # <<>> /\ Head(str) = t.c /\ RegexTest(Tail(re), Tail(str))
         [] t.k = "dotstar" ->
              \/ RegexTest(Tail(re), str)
              \/ /\ str # <<>> /\ Head(str) \notin LineTerminators
                 /\ RegexTest(re, Tail(str))

(***************************************************************************)
(* RoleManager (rbac/role-manager.ts).                                     *)
(***************************************************************************)
MkRole(name, permissions) == [name |-> name, permissions |-> permissions]

\* registerDefaultRoles: the three default role definitions
DefaultRoles ==
  << MkRole(Str.admin,
       <<Str.tenant_manage, Str.users_read, Str.users_write, Str.users_delete,
         Str.users_invite, Str.roles_manage, Str.billing_manage, Str.settings_manage,
         Str.data_read, Str.data_write, Str.data_delete>>),
     MkRole(Str.member,
       <<Str.users_read, Str.data_read, Str.data_write, Str.settings_read>>),
     MkRole(Str.viewer, <<Str.users_read, Str.data_read, Str.settings_read>>) >>

registerRoleMerging(rs, role) ==
  IF role.name \in DOMAIN rs
  THEN [rs EXCEPT ![role.name].permissions = @ \o role.permissions]
  ELSE [k \in DOMAIN rs \cup {role.name} |-> IF k = role.name THEN role ELSE rs[k]]
\* registerRole(role): this.roles.set(role.name, role)
registerRole(rs, role) == MapSet(rs, role.name, role)

RECURSIVE registerRoles(_, _)
\* registerRoles(roles): roles.forEach(role => this.registerRole(role))
registerRoles(rs, defs) ==
  IF defs = <<>> THEN rs
  ELSE registerRoles(registerRole(rs, Head(defs)), Tail(defs))

RECURSIVE registerDefaultRolesFrom(_, _)
registerDefaultRolesFrom(rs, defs) ==
  IF defs = <<>> THEN rs
  ELSE registerDefaultRolesFrom(
         IF MapHas(rs, Head(defs).name) THEN rs ELSE registerRole(rs, Head(defs)),
         Tail(defs))

registerDefaultRolesOverwriting(rs) == registerRoles(rs, DefaultRoles)
\* registerDefaultRoles(): each default role is registered unless the name is taken
registerDefaultRoles(rs) == registerDefaultRolesFrom(rs, DefaultRoles)

RECURSIVE setPermissionHierarchy(_, _)
\* setPermissionHierarchy(hierarchy): for each [parent, children] entry,
\* this.permissionHierarchy.set(parent, new Set(children))
setPermissionHierarchy(h, entries) ==
  IF entries = <<>> THEN h
  ELSE setPermissionHierarchy(
         MapSet(h, Head(entries).parent, SetAddAll(<<>>, Head(entries).children)),
         Tail(entries))

addPermissionImplicationReplacing(h, parent, children) ==
  MapSet(h, parent, SetAddAll(<<>>, children))
\* addPermissionImplication(parent, children): the children are added to the
\* Set under parent, or to a new Set
addPermissionImplication(h, parent, children) ==
  LET existing == IF MapHas(h, parent) THEN h[parent] ELSE <<>> IN
  MapSet(h, parent, SetAddAll(existing, children))

\* new RoleManager(options): the roles map after construction
CtorRoles(optRoles) == registerDefaultRoles(registerRoles(EmptyMap, optRoles))

\* new RoleManager(options): the hierarchy after construction
CtorHierarchy(optHierarchy) == setPermissionHierarchy(EmptyMap, optHierarchy)

ExpandDeclaredOnly(expanded, permissions) == SetAddAll(expanded, permissions)
RECURSIVE ExpandPermissions(_, _)
\* the forEach of getRolePermissions: add the permission, then its implied set
ExpandPermissions(expanded, permissions) ==
  IF permissions = <<>> THEN expanded
  ELSE LET p == Head(permissions)
           withP == SetAdd(expanded, p)
       IN ExpandPermissions(
            IF MapHas(hierarchy, p) THEN SetAddAll(withP, hierarchy[p]) ELSE withP,
            Tail(permissions))

\* getRolePermissions(roleName)
getRolePermissions(roleName) ==
  LET role == MapGet(roles, roleName) IN
  IF role = Undefined THEN <<>>
  ELSE ExpandPermissions(<<>>, role.permissions)

RECURSIVE getPermissionsForRolesConcat(_, _)
getPermissionsForRolesConcat(all, roleNames) ==
  IF roleNames = <<>> THEN all
  ELSE getPermissionsForRolesConcat(all \o getRolePermissions(Head(roleNames)),
                                    Tail(roleNames))
RECURSIVE getPermissionsForRolesFrom(_, _)
\* the forEach of getPermissionsForRoles: add each role's permissions
getPermissionsForRolesFrom(all, roleNames) ==
  IF roleNames = <<>> THEN all
  ELSE getPermissionsForRolesFrom(
         SetAddAll(all, getRolePermissions(Head(roleNames))), Tail(roleNames))

\* getPermissionsForRoles(roleNames)
getPermissionsForRoles(roleNames) == getPermissionsForRolesFrom(<<>>, roleNames)

\* a template literal is the sequence of its literal texts and interpolated strings
Text(txt) == [text |-> txt]
Interp(str) == [chars |-> str]

\* getRole(name): this.roles.get(name)
getRole(name) == MapGet(roles, name)

roleHasPermissionByWildcard(roleName, permission) ==
  \E i \in 1..Len(getRolePermissions(roleName)) :
    LET p == getRolePermissions(roleName)[i] IN
    p = permission \/ (Includes(p, "*") /\ p[Len(p)] = "*"
                         /\ Len(permission) >= Len(p) - 1
                         /\ SubSeq(permission, 1, Len(p) - 1) = SubSeq(p, 1, Len(p) - 1))
\* roleHasPermission(roleName, permission)
roleHasPermission(roleName, permission) ==
  Includes(getRolePermissions(roleName), permission)

\* rolesHavePermission(roleNames, permission)
rolesHavePermission(roleNames, permission) ==
  \E i \in 1..Len(roleNames) : roleHasPermission(roleNames[i], permission)

\* what a mutator of a role does: it throws new Error(`Role not found:
\* ${roleName}`) and leaves the roles (rs) alone, or it returns and the role
\* has the new permissions
RoleMutation(rs, roleName, permissions) ==
  IF ~MapHas(rs, roleName)
  THEN [threw |-> TRUE, error |-> [message |-> <<Text("Role not found: "), Interp(roleName)>>],
        roles |-> rs]
  ELSE [threw |-> FALSE, error |-> Undefined,
        roles |-> MapSet(rs, roleName, [rs[roleName] EXCEPT !.permissions = permissions])]

updateRolePermissionsUpserting(rs, roleName, permissions) ==
  [threw |-> FALSE, error |-> Undefined,
   roles |-> MapSet(rs, roleName, MkRole(roleName, permissions))]
\* updateRolePermissions(roleName, permissions)
updateRolePermissions(rs, roleName, permissions) ==
  RoleMutation(rs, roleName, permissions)

\* addPermissionsToRole(roleName, permissions)
addPermissionsToRole(rs, roleName, permissions) ==
  RoleMutation(rs, roleName,
    IF MapHas(rs, roleName)
    THEN SetAddAll(SetAddAll(<<>>, rs[roleName].permissions), permissions)
    ELSE <<>>)

\* removePermissionsFromRole(roleName, permissions)
removePermissionsFromRole(rs, roleName, permissions) ==
  RoleMutation(rs, roleName,
    IF MapHas(rs, roleName)
    THEN SelectSeq(SetAddAll(<<>>, rs[roleName].permissions),
                   LAMBDA p : ~Includes(permissions, p))
    ELSE <<>>)

(***************************************************************************)
(* JavaScript operations used by the policy engine.                        *)
(***************************************************************************)
\* a string[] as a JavaScript value
RECURSIVE JsStrArr(_)
JsStrArr(strs) ==
  JsArr(IF strs = <<>> THEN <<>>
        ELSE <<JsStr(Head(strs))>> \o JsStrArr(Tail(strs)).v)

\* a === b on primitives; arrays, objects and Dates are compared by reference
\* and every value built for a PolicyContext is a fresh object
StrictEq(a, b) ==
  /\ a.t = b.t
  /\ a.t \in {"undefined", "null", "boolean", "number", "string"}
  /\ (a.t \in {"boolean", "number", "string"} => a.v = b.v)

\* Array.prototype.includes on a JavaScript array value
JsIncludes(arr, x) == \E i \in 1..Len(arr.v) : StrictEq(arr.v[i], x)

\* Array.isArray
IsArray(x) == x.t = "array"

\* array indices written as property names
IndexNames == <<"0", "1", "2", "3">>

\* value && typeof value === 'object' && segment in value
HasProperty(value, segment) ==
  CASE value.t = "object" -> segment \in DOMAIN value.v
    [] value.t = "array" ->
         \/ segment = "length"
         \/ \E i \in 1..Len(value.v) : i <= Len(IndexNames) /\ IndexNames[i] = segment
    [] OTHER -> FALSE

\* value[segment]
GetProperty(value, segment) ==
  CASE value.t = "object" -> value.v[segment]
    [] value.t = "array" ->
         IF segment = "length" THEN JsNum(Len(value.v))
         ELSE value.v[CHOOSE i \in 1..Len(value.v) : IndexNames[i] = segment]

\* ToNumber of a primitive or a Date for a relational comparison (strings:
\* unsigned decimal numerals); nan marks NaN (undefined, any other string)
Digits == <<"0", "1", "2", "3", "4", "5", "6", "7", "8", "9">>

RECURSIVE NumeralValue(_, _)
NumeralValue(acc, str) ==
  IF str = <<>> THEN acc
  ELSE LET digit == (CHOOSE d \in 1..Len(Digits) : Digits[d] = Head(str)) - 1
       IN NumeralValue(acc * 10 + digit, Tail(str))

ToNumber(x) ==
  LET Num(n) == [nan |-> FALSE, n |-> n]
      NaN == [nan |-> TRUE, n |-> 0]
      IsDigit(ch) == \E d \in 1..Len(Digits) : Digits[d] = ch
  IN CASE x.t = "number" -> Num(x.v)
       [] x.t = "date" -> Num(x.v)
       [] x.t = "null" -> Num(0)
       [] x.t = "boolean" -> Num(IF x.v THEN 1 ELSE 0)
       [] x.t = "string" ->
            IF \A i \in 1..Len(x.v) : IsDigit(x.v[i]) THEN Num(NumeralValue(0, x.v))
            ELSE NaN
       [] x.t = "undefined" -> NaN

\* characters in code-unit order, for string comparison
CharOrder ==
  <<"\n", "\r", " ", "*", ",", ".", "0", "1", "2", "3", "4", "5", "6", "7", "8", "9",
    ":", "A", "B", "O", "[", "]", "a", "b", "c", "d", "e", "g", "i", "j", "l", "m",
    "n", "o", "p", "r", "s", "t", "u", "v", "w", "y">>

RECURSIVE StrLess(_, _)
StrLess(a, b) ==
  LET CharRank(ch) == CHOOSE i \in 1..Len(CharOrder) : CharOrder[i] = ch IN
  IF b = <<>> THEN FALSE
  ELSE IF a = <<>> THEN TRUE
  ELSE IF Head(a) = Head(b) THEN StrLess(Tail(a), Tail(b))
  ELSE CharRank(Head(a)) < CharRank(Head(b))

\* ToPrimitive for a relational comparison: an array becomes the join of
\* its elements with commas (the arrays compared hold strings, null and
\* undefined), a plain object or a function a string that is no numeral;
\* primitives and Dates (ToNumber gives their time value) stay
ToPrimitive(x) ==
  CASE x.t = "array" ->
         JsStr(Join([i \in 1..Len(x.v) |->
                       IF x.v[i].t = "string" THEN x.v[i].v ELSE <<>>], <<",">>))
    [] x.t \in {"object", "function"} ->
         JsStr(<<"[", "o", "b", "j", "e", "c", "t", " ", "O", "b", "j", "e", "c", "t", "]">>)
    [] OTHER -> x

\* a < b (the abstract relational comparison)
JsLess(a, b) ==
  LET pa == ToPrimitive(a)
      pb == ToPrimitive(b)
  IN IF pa.t = "string" /\ pb.t = "string" THEN StrLess(pa.v, pb.v)
     ELSE LET na == ToNumber(pa)
              nb == ToNumber(pb)
          IN ~na.nan /\ ~nb.nan /\ na.n < nb.n

\* a <= b: not (b < a), false when either side is NaN
JsLessEq(a, b) ==
  LET pa == ToPrimitive(a)
      pb == ToPrimitive(b)
  IN IF pa.t = "string" /\ pb.t = "string" THEN ~StrLess(pb.v, pa.v)
     ELSE LET na == ToNumber(pa)
              nb == ToNumber(pb)
          IN ~na.nan /\ ~nb.nan /\ na.n <= nb.n

(***************************************************************************)
(* PolicyEngine (abac/policy-engine.ts).                                   *)
(***************************************************************************)
\* interface PolicyCondition; attribute is held split at its dots, value is a
\* JavaScript value and customEvaluator a function value or Undefined
MkCondition(attribute, operator, value, customEvaluator) ==
  [attribute |-> attribute, operator |-> operator, value |-> value,
   customEvaluator |-> customEvaluator]

\* interface Policy; conditions is an array or Undefined, priority a
\* JavaScript number or Undefined
MkPolicy(id, effect, actions, resources, conditions, priority) ==
  [id |-> id, effect |-> effect, actions |-> actions, resources |-> resources,
   conditions |-> conditions, priority |-> priority]

\* the customEvaluator functions in use: the one of createOwnershipPolicy and
\* of the ownership scenario, and the two constant functions
CustomEvaluate(fn, context) ==
  CASE fn.name = "ownerIsSubject" ->
         LET attrs == context.resource.attributes
             owner == IF HasProperty(attrs, "ownerId")
                      THEN GetProperty(attrs, "ownerId") ELSE Undefined
         IN StrictEq(owner, context.subject.id)
    [] fn.name = "always" -> TRUE
    [] fn.name = "never" -> FALSE

\* a PolicyContext as the JavaScript object getAttributeValue walks
ContextObject(context) ==
  JsObj([subject |-> JsObj([id |-> context.subject.id,
                            roles |-> context.subject.roles,
                            attributes |-> context.subject.attributes]),
         action |-> JsStr(context.action),
         resource |-> JsObj([type |-> JsStr(context.resource.type),
                             id |-> context.resource.id,
                             attributes |-> context.resource.attributes]),
         environment |-> JsObj([tenantId |-> JsStr(context.environment.tenantId),
                                timestamp |-> context.environment.timestamp,
                                attributes |-> context.environment.attributes])])

RECURSIVE WalkPath(_, _)
WalkPath(value, path) ==
  IF path = <<>> THEN value
  ELSE IF HasProperty(value, Head(path))
       THEN WalkPath(GetProperty(value, Head(path)), Tail(path))
       ELSE Undefined

\* getAttributeValue(attribute, context)
getAttributeValue(attribute, context) == WalkPath(ContextObject(context), attribute)

\* evaluateCondition(condition, context)
evaluateCondition(condition, context) ==
  LET value == getAttributeValue(condition.attribute, context)
      op == condition.operator
  IN CASE op = "eq" -> StrictEq(value, condition.value)
       [] op = "neq" -> ~StrictEq(value, condition.value)
       [] op = "in" -> IsArray(condition.value) /\ JsIncludes(condition.value, value)
       [] op = "nin" -> IsArray(condition.value) /\ ~JsIncludes(condition.value, value)
       [] op = "gt" -> JsLess(condition.value, value)
       [] op = "gte" -> JsLessEq(condition.value, value)
       [] op = "lt" -> JsLess(value, condition.value)
       [] op = "lte" -> JsLessEq(value, condition.value)
       [] op = "contains" -> IsArray(value) /\ JsIncludes(value, condition.value)
       [] op = "custom" ->
            IF condition.customEvaluator # Undefined
            THEN CustomEvaluate(condition.customEvaluator, context)
            ELSE FALSE
       [] OTHER -> FALSE

\* evaluateConditions(policy, context)
evaluateConditions(policy, context) ==
  IF policy.conditions = Undefined \/ Len(policy.conditions.v) = 0 THEN TRUE
  ELSE \A i \in 1..Len(policy.conditions.v) :
         evaluateCondition(policy.conditions.v[i], context)

\* matchesPattern(str, pattern)
matchesPattern(str, pattern) ==
  IF pattern = Str.star THEN TRUE
  ELSE RegexTest(PatternRegex(pattern), str)

\* the filter predicate of getApplicablePolicies
IsApplicable(policy, context) ==
  LET actionMatches == \E i \in 1..Len(policy.actions) :
                         matchesPattern(context.action, policy.actions[i])
      resourceMatches == \E i \in 1..Len(policy.resources) :
                           matchesPattern(context.resource.type, policy.resources[i])
  IN actionMatches /\ resourceMatches

RECURSIVE Filter(_, _)
Filter(list, context) ==
  IF list = <<>> THEN <<>>
  ELSE (IF IsApplicable(Head(list), context) THEN <<Head(list)>> ELSE <<>>)
         \o Filter(Tail(list), context)

\* getApplicablePolicies(context): the Map's values in insertion order, filtered
getApplicablePolicies(context) == Filter(policies, context)

\* policy.priority || 0
PriorityOf(policy) ==
  IF policy.priority = Undefined THEN 0 ELSE policy.priority.v

RECURSIVE InsertByPriority(_, _)
\* p goes behind every policy whose priority is not lower (a stable sort)
InsertByPriority(sorted, p) ==
  IF sorted = <<>> THEN <<p>>
  ELSE IF PriorityOf(Head(sorted)) >= PriorityOf(p)
       THEN <<Head(sorted)>> \o InsertByPriority(Tail(sorted), p)
       ELSE <<p>> \o sorted

RECURSIVE SortFrom(_, _)
SortFrom(sorted, list) ==
  IF list = <<>> THEN sorted
  ELSE SortFrom(InsertByPriority(sorted, Head(list)), Tail(list))

\* applicablePolicies.sort((a, b) => (b.priority || 0) - (a.priority || 0)):
\* descending priority, equal priorities in their original order
SortByPriority(list) == SortFrom(<<>>, list)

RECURSIVE FirstSatisfied(_, _, _)
\* for (const policy of sortedPolicies) if (policy.effect === effect &&
\* this.evaluateConditions(policy, context)) return ...: whether the loop returns
FirstSatisfied(sorted, effect, context) ==
  IF sorted = <<>> THEN FALSE
  ELSE IF Head(sorted).effect = effect /\ evaluateConditions(Head(sorted), context)
       THEN TRUE
       ELSE FirstSatisfied(Tail(sorted), effect, context)

RECURSIVE FirstMatchWins(_, _)
FirstMatchWins(sorted, context) ==
  IF sorted = <<>> THEN FALSE
  ELSE IF evaluateConditions(Head(sorted), context)
       THEN Head(sorted).effect = "allow"
       ELSE FirstMatchWins(Tail(sorted), context)

RECURSIVE LastMatchWins(_, _)
LastMatchWins(sorted, context) ==
  IF sorted = <<>> THEN FALSE
  ELSE IF evaluateConditions(sorted[Len(sorted)], context)
       THEN sorted[Len(sorted)].effect = "allow"
       ELSE LastMatchWins(SubSeq(sorted, 1, Len(sorted) - 1), context)

EvaluateDefaultAllow(sorted, context) == ~FirstSatisfied(sorted, "deny", context)
\* the three steps of evaluate after the sort: deny pass, allow pass, default
EvaluateSorted(sorted, context) ==
  IF FirstSatisfied(sorted, "deny", context) THEN FALSE
  ELSE IF FirstSatisfied(sorted, "allow", context) THEN TRUE
  ELSE FALSE

\* evaluate(context)
evaluate(context) ==
  EvaluateSorted(SortByPriority(getApplicablePolicies(context)), context)

RECURSIVE ReplaceById(_, _)
ReplaceById(ps, policy) ==
  IF ps = <<>> THEN <<>>
  ELSE <<IF Head(ps).id = policy.id THEN policy ELSE Head(ps)>>
         \o ReplaceById(Tail(ps), policy)

\* registerPolicy(policy): this.policies.set(policy.id, policy); a Map keeps
\* the position of a key that is set again
registerPolicy(ps, policy) ==
  IF \E i \in 1..Len(ps) : ps[i].id = policy.id
  THEN ReplaceById(ps, policy)
  ELSE Append(ps, policy)

\* PolicyEngine.createContextFromTenant(tenantContext, action, resource)
createContextFromTenant(tenantContext, action, resource) ==
  [subject |->
     [id |-> IF tenantContext.user = Undefined \/ tenantContext.user.id = Str.empty
             THEN JsStr(Str.anonymous) ELSE JsStr(tenantContext.user.id),
      roles |-> IF tenantContext.roles = Undefined THEN JsArr(<<>>)
                ELSE JsStrArr(tenantContext.roles.v),
      attributes |->
        JsObj([email |-> IF tenantContext.user = Undefined THEN Undefined
                         ELSE tenantContext.user.email])],
   action |-> action,
   resource |->
     [type |-> resource.type,
      id |-> resource.id,
      attributes |-> IF resource.attributes = Undefined THEN JsObj(EmptyMap)
                     ELSE resource.attributes],
   environment |->
     [tenantId |-> tenantContext.tenant.id,
      timestamp |-> JsDate(now),
      attributes |-> JsObj(EmptyMap)]]

\* PolicyEngine.createOwnershipPolicy(resourceType)
createOwnershipPolicy(resourceType) ==
  MkPolicy(resourceType \o <<"-","o","w","n","e","r","s","h","i","p">>,
           "allow", <<Str.read, Str.write, Str.delete>>, <<resourceType>>,
           JsArr(<<MkCondition(<<"resource", "attributes", "ownerId">>, "eq",
                               JsNull, JsFn("ownerIsSubject"))>>),
           Undefined)

(***************************************************************************)
(* AuthorizationManager (authorization-manager.ts).  The context parameter *)
(* of can, authorize and require is what tenantContext.getContext()        *)
(* returns to the call: the context of the run() the caller is in, or      *)
(* Undefined outside any run().  A resource is a record of type, id and    *)
(* attributes (id a string value or Undefined, attributes an object or     *)
(* Undefined), or Undefined.                                               *)
(***************************************************************************)
MkResource(type, id, attributes) == [type |-> type, id |-> id, attributes |-> attributes]

\* options.defaultDeny !== false
CtorDefaultDeny(opt) == opt # JsBool(FALSE)

\* options.cache || false
CtorCacheEnabled(opt) == IF opt = Undefined THEN FALSE ELSE opt.v

DefaultCacheTTL == 60000
\* options.cacheTTL || 60000
CtorCacheTTL(opt) ==
  IF opt = Undefined \/ opt = JsNum(0) THEN DefaultCacheTTL ELSE opt.v

\* getCacheKey(context, action, resource)
getCacheKey(context, action, resource) ==
  LET userId == IF context.user = Undefined \/ context.user.id = Str.empty
                THEN Str.anonymous ELSE context.user.id
      roleList == IF context.roles = Undefined THEN Str.empty
                  ELSE Join(context.roles.v, <<",">>)
      type == IF resource = Undefined THEN Str.empty ELSE resource.type
      id == IF resource = Undefined \/ resource.id = Undefined THEN Str.empty
            ELSE resource.id.v
  IN Join(<<context.tenant.id, userId, roleList, action, type, id>>, <<":">>)

CacheFreshAtTTL(key) ==
  MapHas(cache, key) /\ now - cache[key].timestamp <= cacheTTL
\* cached && Date.now() - cached.timestamp < this.cacheTTL
CacheFresh(key) ==
  MapHas(cache, key) /\ now - cache[key].timestamp < cacheTTL

\* matchesWildcard(str, pattern)
matchesWildcard(str, pattern) == RegexTest(PatternRegex(pattern), str)

\* the RBAC part of canWithContext and authorize: a direct permission match
RbacDirect(context, action) ==
  /\ context.roles # Undefined /\ Len(context.roles.v) > 0
  /\ Includes(getPermissionsForRoles(context.roles.v), action)

\* permissions.filter(p => p.includes('*')), some of which matches the action
RbacWildcardMatches(context, action) ==
  LET permissions == getPermissionsForRoles(context.roles.v) IN
  { i \in 1..Len(permissions) :
      Includes(permissions[i], "*") /\ matchesWildcard(action, permissions[i]) }

RbacWildcard(context, action) ==
  /\ context.roles # Undefined /\ Len(context.roles.v) > 0
  /\ RbacWildcardMatches(context, action) # {}

\* allowed after the RBAC block
RbacAllows(context, action) ==
  RbacDirect(context, action) \/ RbacWildcard(context, action)

\* policyDecision of the ABAC block, false when no resource is given
AbacAllows(context, action, resource) ==
  /\ resource # Undefined
  /\ evaluate(createContextFromTenant(context, action, resource))

DecideDenyOverrides(context, action, resource) ==
  IF resource # Undefined /\ ~AbacAllows(context, action, resource)
  THEN FALSE
  ELSE RbacAllows(context, action) \/ AbacAllows(context, action, resource)
\* allowed as canWithContext and authorize compute it when no cached
\* decision is returned
Decide(context, action, resource) ==
  RbacAllows(context, action) \/ AbacAllows(context, action, resource)

\* whether canWithContext returns a cached decision
CacheHit(context, action, resource) ==
  cacheEnabled /\ CacheFresh(getCacheKey(context, action, resource))

\* canWithContext(context, action, resource): the value returned
canWithContext(context, action, resource) ==
  IF CacheHit(context, action, resource)
  THEN cache[getCacheKey(context, action, resource)].decision
  ELSE Decide(context, action, resource)

\* canWithContext(context, action, resource): the cache afterwards
CacheAfter(context, action, resource) ==
  IF cacheEnabled /\ ~CacheHit(context, action, resource)
  THEN MapSet(cache, getCacheKey(context, action, resource),
              [decision |-> Decide(context, action, resource), timestamp |-> now])
  ELSE cache

canNoContextDeny(context, action, resource) ==
  IF context = Undefined THEN FALSE
  ELSE canWithContext(context, action, resource)
\* can(action, resource): the value returned
can(context, action, resource) ==
  IF context = Undefined THEN ~defaultDeny
  ELSE canWithContext(context, action, resource)

\* can(action, resource): the cache afterwards
CanCacheAfter(context, action, resource) ==
  IF context = Undefined THEN cache
  ELSE CacheAfter(context, action, resource)

\* pieces of a message: literal text of the source, and interpolated strings
RoleReason(context, action) ==
  <<Text("Permission '"), Interp(action), Text("' granted by role(s): "),
    Interp(Join(context.roles.v, <<",", " ">>))>>
WildcardReason(action, permission) ==
  <<Text("Permission '"), Interp(action),
    Text("' granted by wildcard permission '"), Interp(permission), Text("'")>>
AbacAllowReason == <<Text("Allowed by ABAC policy evaluation")>>
AbacDenyReason == <<Text("Denied by ABAC policy evaluation")>>
NoContextReason == <<Text("No tenant context available")>>
NoMatchReason == <<Text("No matching permissions or policies found")>>

\* authorize(action, resource): the reasons pushed by the RBAC block
AuthorizeRbacReasons(context, action) ==
  IF RbacDirect(context, action) THEN <<RoleReason(context, action)>>
  ELSE IF RbacWildcard(context, action)
  THEN LET permissions == getPermissionsForRoles(context.roles.v)
           first == CHOOSE i \in RbacWildcardMatches(context, action) :
                      \A j \in RbacWildcardMatches(context, action) : i <= j
       IN <<WildcardReason(action, permissions[first])>>
  ELSE <<>>

\* authorize(action, resource): the reasons pushed by the ABAC block
AuthorizeAbacReasons(context, action, resource) ==
  IF resource = Undefined THEN <<>>
  ELSE IF AbacAllows(context, action, resource) THEN <<AbacAllowReason>>
  ELSE IF ~RbacAllows(context, action) THEN <<AbacDenyReason>>
  ELSE <<>>

AuthorizeAbacOnly(context, action, resource) == AbacAllows(context, action, resource)
\* authorize(action, resource): allowed, as authorize's own RBAC and ABAC
\* blocks compute it (a direct match, else the first matching wildcard
\* permission; then the policy decision, which only ever sets allowed)
AuthorizeAllowed(context, action, resource) ==
  LET permissions == IF context.roles # Undefined /\ Len(context.roles.v) > 0
                     THEN getPermissionsForRoles(context.roles.v) ELSE <<>>
      rbac == IF Includes(permissions, action) THEN TRUE
              ELSE \E i \in 1..Len(permissions) :
                     /\ Includes(permissions[i], "*")
                     /\ matchesWildcard(action, permissions[i])
  IN IF resource = Undefined THEN rbac
     ELSE IF evaluate(createContextFromTenant(context, action, resource)) THEN TRUE
     ELSE rbac

\* authorize(action, resource): the AuthorizationDecision returned
authorize(context, action, resource) ==
  IF context = Undefined
  THEN [allowed |-> ~defaultDeny, reasons |-> <<NoContextReason>>]
  ELSE LET allowed == AuthorizeAllowed(context, action, resource)
           reasons == AuthorizeRbacReasons(context, action)
                        \o AuthorizeAbacReasons(context, action, resource)
       IN [allowed |-> allowed,
           reasons |-> IF ~allowed /\ Len(reasons) = 0 THEN <<NoMatchReason>>
                       ELSE reasons]

NoOutcome == [threw |-> FALSE, error |-> Undefined]

\* new Error(`Unauthorized: ${decision.reasons.join('; ')}`) with code,
\* action and resource set on it
UnauthorizedError(decision, action, resource) ==
  [message |-> <<Text("Unauthorized: ")>> \o Join(decision.reasons, <<Text("; ")>>),
   code |-> "UNAUTHORIZED", action |-> action, resource |-> resource]

requireThrowsWhenAllowed(context, action, resource) ==
  LET decision == authorize(context, action, resource) IN
  IF decision.allowed
  THEN [threw |-> TRUE, error |-> UnauthorizedError(decision, action, resource)]
  ELSE NoOutcome
\* require(action, resource): whether it throws, and what
require(context, action, resource) ==
  LET decision == authorize(context, action, resource) IN
  IF ~decision.allowed
  THEN [threw |-> TRUE, error |-> UnauthorizedError(decision, action, resource)]
  ELSE NoOutcome

(***************************************************************************)
(* Audit logging (audit/in-memory-store.ts, its later version in           *)
(* unnamed/part_007, and AuditLogger and @AuditAction in                   *)
(* audit/decorator.ts).                                                    *)
(***************************************************************************)
DefaultMaxEvents == 10000

\* new InMemoryAuditStore(maxEvents = 10000) of in-memory-store.ts (version
\* "slice") and new InMemoryAuditStore({ maxEvents }) of part_007 (version
\* "splice": config.maxEvents || 10000); stored counts the calls of store
NewAuditStore(version, maxEvents) ==
  [version |-> version, events |-> <<>>, stored |-> 0,
   maxEvents |-> IF maxEvents = Undefined THEN DefaultMaxEvents
                 ELSE IF version = "splice" /\ maxEvents.v = 0 THEN DefaultMaxEvents
                 ELSE maxEvents.v]

\* Array.prototype.slice(start): a negative start counts from the end
SliceFrom(arr, start) ==
  LET from == IF start < 0
              THEN (IF Len(arr) + start < 0 THEN 0 ELSE Len(arr) + start)
              ELSE (IF start > Len(arr) THEN Len(arr) ELSE start)
  IN SubSeq(arr, from + 1, Len(arr))

\* store(event): push, then rotate when the length exceeds maxEvents, with
\* this.events.slice(-this.maxEvents) or this.events.splice(0, length - maxEvents)
store(st, event) ==
  LET pushed == Append(st.events, event)
      eventsToRemove == Len(pushed) - st.maxEvents
  IN [st EXCEPT
        !.events =
          IF Len(pushed) > st.maxEvents
          THEN (IF st.version = "slice" THEN SliceFrom(pushed, 0 - st.maxEvents)
                ELSE SubSeq(pushed,
                            (IF eventsToRemove > Len(pushed) THEN Len(pushed)
                             ELSE eventsToRemove) + 1,
                            Len(pushed)))
          ELSE pushed,
        !.stored = @ + 1]

\* getAll(): a copy of the events
getAll(st) == st.events

\* interface AuditQueryFilter: every field a string, a Date or Undefined
MkFilter(tenant, action, result) ==
  [tenant |-> tenant, actor |-> Undefined, action |-> action,
   resourceType |-> Undefined, resourceId |-> Undefined, result |-> result,
   startDate |-> Undefined, endDate |-> Undefined]

\* a filter field that is set: not undefined and not the empty string
Truthy(x) == x # Undefined /\ ~(x.t = "string" /\ x.v = <<>>)

\* the filters of query and count (matchesFilter in part_007)
matchesFilter(event, filter) ==
  /\ Truthy(filter.tenant) => StrictEq(event.tenant, filter.tenant)
  /\ Truthy(filter.actor) => StrictEq(JsStr(event.actor.id), filter.actor)
  /\ Truthy(filter.action) => StrictEq(JsStr(event.action), filter.action)
  /\ Truthy(filter.resourceType) => StrictEq(JsStr(event.resource.type), filter.resourceType)
  /\ Truthy(filter.resourceId) => StrictEq(JsStr(event.resource.id), filter.resourceId)
  /\ Truthy(filter.result) => StrictEq(JsStr(event.result), filter.result)
  /\ Truthy(filter.startDate) => event.timestamp.v >= filter.startDate.v
  /\ Truthy(filter.endDate) => event.timestamp.v <= filter.endDate.v

RECURSIVE SortByTimestampDesc(_, _)
\* results.sort((a, b) => b.timestamp.getTime() - a.timestamp.getTime()): a
\* stable sort, each event of list inserted behind those that are not older
SortByTimestampDesc(sorted, list) ==
  IF list = <<>> THEN sorted
  ELSE LET e == Head(list)
           k == Cardinality({i \in 1..Len(sorted) :
                               sorted[i].timestamp.v >= e.timestamp.v})
       IN SortByTimestampDesc(
            SubSeq(sorted, 1, k) \o <<e>> \o SubSeq(sorted, k + 1, Len(sorted)),
            Tail(list))

queryIgnoringTenant(st, filter) ==
  SelectSeq(st.events, LAMBDA e : matchesFilter(e, [filter EXCEPT !.tenant = Undefined]))
\* query(filter) with no sort and no pagination: the matching events, in
\* insertion order (in-memory-store.ts) or newest first (part_007)
query(st, filter) ==
  LET filtered == SelectSeq(st.events, LAMBDA e : matchesFilter(e, filter)) IN
  IF st.version = "slice" THEN filtered ELSE SortByTimestampDesc(<<>>, filtered)

\* count(filter)
count(st, filter) == Len(SelectSeq(st.events, LAMBDA e : matchesFilter(e, filter)))

\* AuditLogger.getActor(context)
getActor(context) ==
  IF context # Undefined /\ context.user # Undefined /\ context.user.id # Str.empty
  THEN [id |-> context.user.id, type |-> "user"]
  ELSE [id |-> Str.anonymous, type |-> "anonymous"]

\* AuditLogger.isSensitiveField(fieldName): the lower-cased name includes
\* one of the lower-cased sensitive fields
isSensitiveField(fieldName) ==
  LET Lower(ch) == CASE ch = "K" -> "k" [] ch = "T" -> "t" [] OTHER -> ch
      lowerFieldName == [i \in 1..Len(fieldName) |-> Lower(fieldName[i])]
      sensitiveFields ==
        { <<"p","a","s","s","w","o","r","d">>, <<"s","e","c","r","e","t">>,
          <<"t","o","k","e","n">>, <<"k","e","y">>, <<"a","p","i","k","e","y">>,
          <<"c","r","e","d","e","n","t","i","a","l","s">>, <<"a","u","t","h">>,
          <<"a","u","t","h","o","r","i","z","a","t","i","o","n">> }
  IN \E sensitive \in sensitiveFields :
       \E i \in 1..(Len(lowerFieldName) - Len(sensitive) + 1) :
         SubSeq(lowerFieldName, i, i + Len(sensitive) - 1) = sensitive

\* AuditLogger.sanitizeMetadata(metadata) for metadata whose values are
\* primitives: the value of a sensitive field becomes '[REDACTED]'
sanitizeMetadata(metadata) ==
  [key \in DOMAIN metadata |->
     IF isSensitiveField(key)
     THEN JsStr(<<"[","R","E","D","A","C","T","E","D","]">>)
     ELSE metadata[key]]

\* the AuditEvent that AuditLogger.log(input) builds in the context bound at
\* the call; the n-th event logged has id n (uuidv4())
LogEvent(context, input) ==
  [id |-> auditStore.stored + 1,
   timestamp |-> JsDate(now),
   tenant |-> IF context = Undefined THEN Undefined ELSE JsStr(context.tenant.id),
   actor |-> getActor(context),
   action |-> input.action,
   resource |-> input.resource,
   result |-> input.result,
   metadata |-> sanitizeMetadata(input.metadata)]

\* the finalFilter of AuditLogger.query and count: the tenant of the bound
\* context is filled in when the filter names none
FinalFilter(context, filter) ==
  IF context # Undefined /\ context.tenant.id # Str.empty /\ ~Truthy(filter.tenant)
  THEN [filter EXCEPT !.tenant = JsStr(context.tenant.id)]
  ELSE filter

\* interface AuditLogInput, with metadata a map from names to values
MkLogInput(action, resourceId, result, metadata) ==
  [action |-> action, resource |-> [type |-> Str.doc, id |-> resourceId],
   result |-> result, metadata |-> metadata]

\* the wrapper of @AuditAction: the input of the logger.log call made in the
\* setImmediate callback for an invocation with arguments args, started at
\* startTime, whose method resolved or rejected (outcome)
AuditedLogInput(args, startTime, outcome) ==
  LET success == outcome.kind = "resolve"
      errorMessage == IF success THEN Undefined ELSE JsStr(outcome.message)
      executionTime == <<"e","x","e","c","u","t","i","o","n","T","i","m","e">>
      base == [key \in {executionTime} |-> JsNum(now - startTime)]
      withError == [key \in {executionTime, <<"e","r","r","o","r">>} |->
                      IF key = executionTime THEN base[key] ELSE errorMessage]
  IN MkLogInput(Str.delete, args[1], IF success THEN Str.success ELSE Str.failure,
                IF ~success /\ Truthy(errorMessage) THEN withError ELSE base)

\* an invocation of the decorated method that has not been made
NoInvocation ==
  [pc |-> "idle", context |-> Undefined, args |-> <<>>, startTime |-> 0,
   outcome |-> Undefined, order |-> 0, event |-> 0]

(***************************************************************************)
(* The Fastify plugin (unnamed/part_005): the onRequest hook resolveTenant *)
(* with the 'header' resolution strategy and no onError handler, and the   *)
(* preHandler hook factories.                                              *)
(***************************************************************************)
\* dataStore.getTenantById(tenantId) of the application: tenant A is active,
\* tenant B is suspended, there is no other tenant
getTenantById(tenantId) ==
  IF tenantId = Str.A THEN [id |-> Str.A, status |-> "active"]
  ELSE IF tenantId = Str.B THEN [id |-> Str.B, status |-> "suspended"]
  ELSE Undefined

\* dataStore.getUserTenant(userId, tenantId) of the application: u1 is an
\* admin of tenant A, with no permissions recorded
getUserTenant(userId, tenantId) ==
  IF userId = Str.u1 /\ tenantId = Str.A
  THEN [roles |-> <<Str.admin>>, permissions |-> Undefined]
  ELSE Undefined

\* resolveTenant(request, reply) up to the call of tenantContext.run: the
\* status of the reply the hook sends (0: none), the context it builds
\* (Undefined: none) and the fields it sets on the request
resolveTenant(allowNoTenant, header, user) ==
  LET tenantId == IF Truthy(header) THEN header.v ELSE Str.empty
      tenant == getTenantById(tenantId)
      tenantUser == getUserTenant(user.id, tenant.id)
      Replied(status) == [reply |-> status, context |-> Undefined, request |-> Undefined]
  IN IF tenantId = Str.empty
     THEN Replied(IF allowNoTenant THEN 0 ELSE 400)
     ELSE IF tenant = Undefined THEN Replied(404)
     ELSE IF tenant.status # "active" THEN Replied(403)
     ELSE IF user # Undefined /\ user.id # Str.empty /\ tenantUser = Undefined
             /\ ~allowNoTenant
     THEN Replied(403)
     ELSE LET userRoles == IF user # Undefined /\ user.id # Str.empty
                              /\ tenantUser # Undefined
                           THEN tenantUser.roles ELSE <<>>
          IN [reply |-> 0,
              context |-> MkContext(tenant.id, user, JsArr(userRoles)),
              request |-> [tenant |-> tenant, tenantUser |-> user,
                           tenantRoles |-> userRoles]]

InitCtx ==
  /\ acts = [a \in ActIds |-> UnusedAct]
  /\ stack = <<>>
  /\ current = Undefined

\* the event loop starts a task (a request handler, a test body) outside any run()
Spawn(a) ==
  /\ stack = <<>>
  /\ IsFresh(a)
  /\ acts' = [acts EXCEPT ![a] = [UnusedAct EXCEPT !.pc = "run"]]
  /\ stack' = <<a>>
  /\ current' = Undefined
  /\ UNCHANGED <<authVars, auditVars>>

\* the executing activation calls tenantContext.run(c, fn) or runAsync(c, fn)
CallRun(a, c, via, kind) ==
  /\ stack # <<>>
  /\ acts[Top].pc = "run"
  /\ IsFresh(a)
  /\ via = "runAsync" => kind = "async"
  /\ acts' = [acts EXCEPT ![a] =
        [UnusedAct EXCEPT !.pc = "run", !.ctx = c, !.parent = Top,
                          !.saved = current, !.inRun = TRUE,
                          !.sync = SyncDelivery(via, kind)]]
  /\ stack' = Append(stack, a)
  /\ current' = EnterStore(c)
  /\ UNCHANGED <<authVars, auditVars>>

\* the store of the worker once activation a has left the stack
AfterPop(a, threw) ==
  IF acts[a].inRun THEN RunExit(a, threw) ELSE Undefined

\* the executing activation awaits a timer (w = 0) or the promise of one of
\* its run() calls (w = that activation) and leaves the stack
Await(w) ==
  /\ stack # <<>>
  /\ LET a == Top IN
     /\ acts[a].pc = "run"
     /\ ~acts[a].sync
     /\ \/ w = 0
        \/ /\ w \in ActIds
           /\ acts[w].parent = a
           /\ acts[w].pc # "unused"
           /\ ~acts[w].consumed
     /\ acts' = [acts EXCEPT ![a].pc = "await", ![a].cap = CaptureStore,
                             ![a].waiting = w, ![a].inRun = FALSE]
     /\ stack' = Pop
     /\ current' = AfterPop(a, FALSE)
     /\ UNCHANGED <<authVars, auditVars>>

\* the event loop resumes a continuation whose timer fired or whose awaited
\* promise settled
Resume(a) ==
  /\ stack = <<>>
  /\ acts[a].pc = "await"
  /\ acts[a].waiting # 0 => acts[acts[a].waiting].pc = "done"
  /\ LET w == acts[a].waiting
         woken == [acts EXCEPT ![a].pc = "run", ![a].waiting = 0,
                               ![a].cap = Undefined]
     IN acts' = IF w = 0 THEN woken
                ELSE [woken EXCEPT ![a].recv = Deliver(w, acts[w].out, acts[w].err),
                                   ![w].consumed = TRUE]
  /\ stack' = <<a>>
  /\ current' = ResumeStore(a)
  /\ UNCHANGED <<authVars, auditVars>>

\* the executing activation returns (out = "ok") or throws error e (out = "err")
Return(out, e) ==
  /\ stack # <<>>
  /\ LET a == Top
         done == [acts EXCEPT ![a].pc = "done", ![a].out = out, ![a].err = e,
                              ![a].inRun = FALSE, ![a].recv = NoRecv]
     IN
     /\ acts[a].pc = "run"
     /\ out = "ok" <=> e = NoError
     /\ acts' = IF acts[a].sync
                THEN [done EXCEPT ![acts[a].parent].recv = Deliver(a, out, e),
                                  ![a].consumed = TRUE]
                ELSE done
     /\ stack' = Pop
     /\ current' = AfterPop(a, out = "err")
     /\ UNCHANGED <<authVars, auditVars>>

NextCtx ==
  \/ \E a \in ActIds : Spawn(a)
  \/ \E a \in ActIds, c \in RunContexts, via \in {"run", "runAsync"},
        kind \in {"sync", "async"} : CallRun(a, c, via, kind)
  \/ \E w \in 0..MaxAct : Await(w)
  \/ \E a \in ActIds : Resume(a)
  \/ \E e \in Errors : Return("err", e)
  \/ Return("ok", NoError)

(***************************************************************************)
(* Initial states and operations.                                          *)
(***************************************************************************)
NoCall == [op |-> "none"]

\* AuditLogger.getInstance({ store: new InMemoryAuditStore() }), and no
\* invocation of the decorated method
InitAudit ==
  /\ auditStore = NewAuditStore("slice", Undefined)
  /\ calls = [c \in 1..MaxCalls |-> NoInvocation]

\* new RoleManager(), new PolicyEngine(), new AuthorizationManager(), no clock tick
InitAuthDefault ==
  /\ roles = CtorRoles(<<>>)
  /\ hierarchy = CtorHierarchy(<<>>)
  /\ policies = <<>>
  /\ defaultDeny = CtorDefaultDeny(Undefined)
  /\ cacheEnabled = CtorCacheEnabled(Undefined)
  /\ cacheTTL = CtorCacheTTL(Undefined)
  /\ cache = EmptyMap
  /\ now = 0
  /\ last = NoCall

\* the context store, and a manager constructed with no options
InitDefault == InitCtx /\ InitAuthDefault /\ InitAudit

\* what a caller of a mutator of a role's permissions observes
Mutated(op, roleName, permissions, outcome) ==
  [op |-> op, roleName |-> roleName, permissions |-> permissions,
   threw |-> outcome.threw, error |-> outcome.error]

\* roleManager.updateRolePermissions(roleName, permissions)
UpdateRolePermissions(roleName, permissions) ==
  /\ roles' = updateRolePermissions(roles, roleName, permissions).roles
  /\ last' = Mutated("updateRolePermissions", roleName, permissions,
                     updateRolePermissions(roles, roleName, permissions))
  /\ UNCHANGED <<auditVars, ctxVars, hierarchy, policies, mgrVars>>

\* roleManager.addPermissionsToRole(roleName, permissions)
AddPermissionsToRole(roleName, permissions) ==
  /\ roles' = addPermissionsToRole(roles, roleName, permissions).roles
  /\ last' = Mutated("addPermissionsToRole", roleName, permissions,
                     addPermissionsToRole(roles, roleName, permissions))
  /\ UNCHANGED <<auditVars, ctxVars, hierarchy, policies, mgrVars>>

\* roleManager.removePermissionsFromRole(roleName, permissions)
RemovePermissionsFromRole(roleName, permissions) ==
  /\ roles' = removePermissionsFromRole(roles, roleName, permissions).roles
  /\ last' = Mutated("removePermissionsFromRole", roleName, permissions,
                     removePermissionsFromRole(roles, roleName, permissions))
  /\ UNCHANGED <<auditVars, ctxVars, hierarchy, policies, mgrVars>>

\* policyEngine.registerPolicy(policy)
RegisterPolicy(policy) ==
  /\ policies' = registerPolicy(policies, policy)
  /\ Len(policies') <= MaxPolicies
  /\ last' = NoCall
  /\ UNCHANGED <<auditVars, ctxVars, rbacVars, mgrVars>>

\* policyEngine.evaluate(context)
Evaluate(context) ==
  /\ last' = [op |-> "evaluate", context |-> context, result |-> evaluate(context)]
  /\ UNCHANGED <<auditVars, ctxVars, rbacVars, policies, mgrVars>>

\* roleManager.registerRole(role)
RegisterRole(role) ==
  /\ roles' = registerRole(roles, role)
  /\ last' = [op |-> "registerRole", role |-> role]
  /\ UNCHANGED <<auditVars, ctxVars, hierarchy, policies, mgrVars>>

\* roleManager.setPermissionHierarchy(entries)
SetPermissionHierarchy(entries) ==
  /\ hierarchy' = setPermissionHierarchy(hierarchy, entries)
  /\ last' = [op |-> "setPermissionHierarchy", entries |-> entries]
  /\ UNCHANGED <<auditVars, ctxVars, roles, policies, mgrVars>>

\* roleManager.addPermissionImplication(parent, children)
AddPermissionImplication(parent, children) ==
  /\ hierarchy' = addPermissionImplication(hierarchy, parent, children)
  /\ last' = [op |-> "addPermissionImplication", parent |-> parent,
              children |-> children]
  /\ UNCHANGED <<auditVars, ctxVars, roles, policies, mgrVars>>

\* logger.log(input), called inside tenantContext.run(context, ...) or, with
\* Undefined for the context, outside any run()
Log(context, input) ==
  /\ auditStore.stored < MaxStored
  /\ auditStore' = store(auditStore, LogEvent(context, input))
  /\ last' = [op |-> "log", context |-> context, input |-> input]
  /\ UNCHANGED <<calls, ctxVars, rbacVars, policies, mgrVars>>

\* logger.query(filter)
Query(context, filter) ==
  /\ last' = [op |-> "query", context |-> context, filter |-> filter,
              result |-> query(auditStore, FinalFilter(context, filter))]
  /\ UNCHANGED <<auditVars, ctxVars, rbacVars, policies, mgrVars>>

\* logger.count(filter)
Count(context, filter) ==
  /\ last' = [op |-> "count", context |-> context, filter |-> filter,
              result |-> count(auditStore, FinalFilter(context, filter))]
  /\ UNCHANGED <<auditVars, ctxVars, rbacVars, policies, mgrVars>>

\* the decorated method is called with args inside
\* tenantContext.run(context, ...): the wrapper takes the start time and
\* awaits the original method, which will resolve or reject (outcome)
Invoke(c, context, args, outcome) ==
  /\ calls[c].pc = "idle"
  /\ \A d \in 1..(c - 1) : calls[d].pc # "idle"
  /\ calls' = [calls EXCEPT ![c] =
        [pc |-> "running", context |-> context, args |-> args, startTime |-> now,
         outcome |-> outcome, order |-> 0, event |-> 0]]
  /\ last' = [op |-> "invoke", call |-> c]
  /\ UNCHANGED <<auditStore, ctxVars, rbacVars, policies, mgrVars>>

\* the original method settles: the wrapper's finally block hands the
\* logging callback to setImmediate and the wrapper's promise settles with
\* the method's result or error
Settle(c) ==
  /\ calls[c].pc = "running"
  /\ calls' = [calls EXCEPT ![c].pc = "settled",
        ![c].order = Cardinality({d \in 1..MaxCalls : calls[d].pc \in {"settled", "logged"}}) + 1]
  /\ last' = [op |-> "settle", call |-> c, outcome |-> calls[c].outcome]
  /\ UNCHANGED <<auditStore, ctxVars, rbacVars, policies, mgrVars>>

\* the event loop runs the oldest setImmediate callback: logger.log in the
\* context of the invocation, and the store's store
RunImmediate(c) ==
  /\ calls[c].pc = "settled"
  /\ \A d \in 1..MaxCalls : calls[d].pc = "settled" => calls[d].order >= calls[c].order
  /\ auditStore.stored < MaxStored
  /\ auditStore' =
       store(auditStore,
             LogEvent(calls[c].context,
                      AuditedLogInput(calls[c].args, calls[c].startTime, calls[c].outcome)))
  /\ calls' = [calls EXCEPT ![c].pc = "logged", ![c].event = auditStore.stored + 1]
  /\ last' = [op |-> "immediate", call |-> c]
  /\ UNCHANGED <<ctxVars, rbacVars, policies, mgrVars>>

\* Fastify runs the onRequest hook resolveTenant for the request that task
\* Top handles: the hook replies, or passes without a tenant, or builds the
\* context and calls tenantContext.run(context, () => {}), whose callback is
\* activation a
ResolveTenant(a, allowNoTenant, header, user) ==
  LET hook == resolveTenant(allowNoTenant, header, user) IN
  /\ stack # <<>>
  /\ acts[Top].pc = "run"
  /\ acts[Top].parent = 0
  /\ ~(last.op \in {"onRequest", "requireRole"} /\ last.task = Top)
  /\ IsFresh(a)
  /\ last' = [op |-> "onRequest", task |-> Top, reply |-> hook.reply,
              context |-> hook.context, request |-> hook.request]
  /\ IF hook.context = Undefined
     THEN UNCHANGED ctxVars
     ELSE /\ acts' = [acts EXCEPT ![a] =
                [UnusedAct EXCEPT !.pc = "run", !.ctx = hook.context, !.parent = Top,
                                  !.saved = current, !.inRun = TRUE,
                                  !.sync = SyncDelivery("run", "sync")]]
          /\ stack' = Append(stack, a)
          /\ current' = EnterStore(hook.context)
  /\ UNCHANGED <<auditVars, rbacVars, policies, mgrVars>>

\* Fastify runs the preHandler hook requireRole(...rs) for the request of
\* task Top, whose onRequest hook has passed without a reply
RequireRole(rs) ==
  /\ stack # <<>>
  /\ acts[Top].pc = "run"
  /\ last.op = "onRequest"
  /\ last.task = Top
  /\ last.reply = 0
  /\ last' = [op |-> "requireRole", task |-> Top, context |-> last.context,
              request |-> last.request, seen |-> getContext,
              reply |-> IF ~hasAnyRole(rs) THEN 403 ELSE 0,
              required |-> rs, current |-> getCurrentRoles]
  /\ UNCHANGED <<auditVars, ctxVars, rbacVars, policies, mgrVars>>

\* Date.now() advances by a millisecond
Tick ==
  /\ now < MaxNow
  /\ now' = now + 1
  /\ UNCHANGED <<auditVars, ctxVars, rbacVars, policies, defaultDeny, cacheEnabled, cacheTTL,
                 cache, last>>

\* the decision cache admits another entry for this call (the model's bound)
CacheRoom(context, action, resource) ==
  IF context = Undefined \/ ~cacheEnabled THEN TRUE
  ELSE IF MapHas(cache, getCacheKey(context, action, resource)) THEN TRUE
  ELSE Cardinality(DOMAIN cache) < MaxCache

\* await manager.can(action, resource), called where getContext() is context
Can(context, action, resource) ==
  /\ CacheRoom(context, action, resource)
  /\ last' = [op |-> "can", context |-> context, action |-> action,
              resource |-> resource,
              hit |-> context # Undefined /\ CacheHit(context, action, resource),
              result |-> can(context, action, resource)]
  /\ cache' = CanCacheAfter(context, action, resource)
  /\ UNCHANGED <<auditVars, ctxVars, rbacVars, policies, defaultDeny, cacheEnabled, cacheTTL, now>>

\* await manager.canWithContext(context, action, resource)
CanWithContext(context, action, resource) ==
  /\ CacheRoom(context, action, resource)
  /\ last' = [op |-> "canWithContext", context |-> context, action |-> action,
              resource |-> resource,
              hit |-> CacheHit(context, action, resource),
              result |-> canWithContext(context, action, resource)]
  /\ cache' = CacheAfter(context, action, resource)
  /\ UNCHANGED <<auditVars, ctxVars, rbacVars, policies, defaultDeny, cacheEnabled, cacheTTL, now>>

\* await manager.authorize(action, resource), called where getContext() is context
Authorize(context, action, resource) ==
  /\ last' = [op |-> "authorize", context |-> context, action |-> action,
              resource |-> resource,
              result |-> authorize(context, action, resource)]
  /\ UNCHANGED <<auditVars, ctxVars, rbacVars, policies, mgrVars>>

\* await manager.require(action, resource), called where getContext() is context
Require(context, action, resource) ==
  /\ last' = [op |-> "require", context |-> context, action |-> action,
              resource |-> resource,
              result |-> require(context, action, resource)]
  /\ UNCHANGED <<auditVars, ctxVars, rbacVars, policies, mgrVars>>

(***************************************************************************)
(* The policy engine on its own: policies are registered in every order    *)
(* and with every priority, and contexts are evaluated.                    *)
(***************************************************************************)
OwnerAttrs(owner) == JsObj([ownerId |-> owner])

DocOwnedBy1 == MkResource(Str.doc, JsStr(Str.d1), OwnerAttrs(JsStr(Str.u1)))
DocOwnedBy2 == MkResource(Str.doc, JsStr(Str.d1), OwnerAttrs(JsStr(Str.u2)))

AllowDoc(priority) ==
  MkPolicy(Str.allow_doc, "allow", <<Str.read, Str.write>>, <<Str.doc>>, Undefined,
           priority)
DenyDoc(priority) ==
  MkPolicy(Str.deny_doc, "deny", <<Str.star>>, <<Str.docstar>>, JsArr(<<>>), priority)
\* the ownership scenario: allow when the custom evaluator finds the owner
OwnerDoc ==
  MkPolicy(Str.owner_doc, "allow", <<Str.read>>, <<Str.doc>>,
           JsArr(<<MkCondition(<<"resource", "attributes", "ownerId">>, "custom",
                               Undefined, JsFn("ownerIsSubject"))>>), JsNum(1))

NextPolicy ==
  \/ \E policy \in
          {AllowDoc(p) : p \in {Undefined, JsNum(5)}}
            \cup {DenyDoc(p) : p \in {Undefined, JsNum(5)}}
            \cup { OwnerDoc, createOwnershipPolicy(Str.doc),
                   MkPolicy(Str.deny_u2, "deny", <<Str.write>>, <<Str.doc>>,
                            JsArr(<<MkCondition(<<"resource", "attributes", "ownerId">>,
                                                "eq", JsStr(Str.u2), Undefined)>>),
                            Undefined),
                   MkPolicy(Str.allow_project, "allow", <<Str.star>>, <<Str.project>>,
                            Undefined, JsNum(5)) } :
        RegisterPolicy(policy)
  \/ \E action \in {Str.read, Str.write, Str.delete, Str.users_read},
        resource \in
          { DocOwnedBy1, DocOwnedBy2,
            MkResource(Str.doc, JsStr(Str.d2), OwnerAttrs(JsNull)),
            MkResource(Str.doc, Undefined, Undefined),
            MkResource(Str.project, JsStr(Str.d1), OwnerAttrs(JsStr(Str.u1))) } :
        Evaluate(createContextFromTenant(CtxA, action, resource))

SpecPolicy == InitDefault /\ [][NextPolicy]_vars

(***************************************************************************)
(* The policy engine with one allow policy for reading documents, whose    *)
(* single condition is drawn from every operator, from attribute paths     *)
(* that resolve, are missing or are malformed, and from values of several  *)
(* types; the policy is registered again under the same id and evaluate is *)
(* called.                                                                 *)
(***************************************************************************)
NextConditions ==
  \/ \E condition \in
        { MkCondition(attribute, operator, value, Undefined) :
            attribute \in { <<"resource", "attributes", "ownerId">>,
                            <<"resource", "attributes", "missing">>,
                            <<"resource", "", "id">>,
                            <<"subject", "id", "length">> },
            operator \in { "eq", "neq", "in", "nin", "gt", "gte", "lt", "lte",
                           "contains", "custom", "matches" },
            value \in { JsStr(Str.u1), JsNum(5), JsArr(<<JsStr(Str.u1)>>), JsNull } } :
        RegisterPolicy(MkPolicy(Str.allow_doc, "allow", <<Str.read>>, <<Str.doc>>,
                                JsArr(<<condition>>), Undefined))
  \/ \E resource \in {DocOwnedBy1, MkResource(Str.doc, Undefined, Undefined)} :
        Evaluate(createContextFromTenant(CtxA, Str.read, resource))

SpecConditions == InitDefault /\ [][NextConditions]_vars

(***************************************************************************)
(* The authorization manager without a cache: roles, the permission        *)
(* hierarchy and policies are registered, and canWithContext, authorize    *)
(* and require are called, the latter two from inside                      *)
(* tenantContext.run(context, ...) or, with Undefined for the context,     *)
(* outside any run().                                                      *)
(***************************************************************************)
DefaultDenyOptions == {Undefined, JsBool(TRUE), JsBool(FALSE)}

\* the contexts of the calls: roles ['ops'], roles ['viewer'], no roles
AuthContexts ==
  { MkContext(Str.A, MkUser(Str.u1, JsStr(Str.e1)), JsArr(<<Str.ops>>)),
    MkContext(Str.B, MkUser(Str.u2, JsStr(Str.e2)), JsArr(<<Str.viewer>>)),
    CtxNoRoles }
AuthActions == {Str.users_read, Str.users_write, Str.billing_read, Str.users_NLread}
AuthResources == {Undefined, DocOwnedBy1}

\* new AuthorizationManager({ defaultDeny }) over a new RoleManager() and a
\* new PolicyEngine()
InitAuth ==
  /\ InitCtx
  /\ InitAudit
  /\ roles = CtorRoles(<<>>)
  /\ hierarchy = CtorHierarchy(<<>>)
  /\ policies = <<>>
  /\ \E opt \in DefaultDenyOptions : defaultDeny = CtorDefaultDeny(opt)
  /\ cacheEnabled = CtorCacheEnabled(Undefined)
  /\ cacheTTL = CtorCacheTTL(Undefined)
  /\ cache = EmptyMap
  /\ now = 0
  /\ last = NoCall

NextAuth ==
  \/ \E role \in { MkRole(Str.ops, <<Str.users_star>>),
                    MkRole(Str.ops, <<Str.star>>),
                    MkRole(Str.ops, <<Str.users_manage>>) } :
        RegisterRole(role)
  \/ SetPermissionHierarchy(
        <<[parent |-> Str.users_manage, children |-> <<Str.users_read, Str.users_write>>]>>)
  \/ \E policy \in { MkPolicy(Str.allow_all, "allow", <<Str.star>>, <<Str.star>>,
                               Undefined, Undefined),
                      DenyDoc(JsNum(5)) } :
        RegisterPolicy(policy)
  \/ \E context \in AuthContexts, action \in AuthActions,
        resource \in AuthResources : CanWithContext(context, action, resource)
  \/ \E context \in AuthContexts \cup {Undefined}, action \in AuthActions,
        resource \in AuthResources : Authorize(context, action, resource)
  \/ \E context \in AuthContexts \cup {Undefined}, action \in AuthActions,
        resource \in AuthResources : Require(context, action, resource)

SpecAuth == InitAuth /\ [][NextAuth]_vars

(***************************************************************************)
(* The authorization manager with its decision cache: time passes,         *)
(* policies are registered, and can, canWithContext and authorize are      *)
(* called.                                                                 *)
(***************************************************************************)
ShortTTL == 2

\* the action and resource arguments of the calls made in a bound context
CacheCalls ==
  { <<Str.read, Undefined>>, <<Str.read, DocOwnedBy1>>, <<Str.read, DocOwnedBy2>>,
    <<Str.users_read, DocOwnedBy1>> }

\* new AuthorizationManager({ defaultDeny, cache: true, cacheTTL: 2 })
InitCache ==
  /\ InitCtx
  /\ InitAudit
  /\ roles = CtorRoles(<<>>)
  /\ hierarchy = CtorHierarchy(<<>>)
  /\ policies = <<>>
  /\ \E opt \in DefaultDenyOptions : defaultDeny = CtorDefaultDeny(opt)
  /\ cacheEnabled = CtorCacheEnabled(JsBool(TRUE))
  /\ cacheTTL = CtorCacheTTL(JsNum(ShortTTL))
  /\ cache = EmptyMap
  /\ now = 0
  /\ last = NoCall

NextCache ==
  \/ Tick
  \/ \E policy \in {OwnerDoc, DenyDoc(Undefined)} : RegisterPolicy(policy)
  \/ \E context \in {CtxA, Undefined}, resource \in {Undefined, DocOwnedBy1} :
        Can(context, Str.read, resource)
  \/ \E call \in CacheCalls : CanWithContext(CtxA, call[1], call[2])
  \/ \E call \in CacheCalls : Authorize(CtxA, call[1], call[2])
  \/ Authorize(Undefined, Str.read, DocOwnedBy1)

SpecCache == InitCache /\ [][NextCache]_vars

(***************************************************************************)
(* The audit logger over an in-memory store of either version, with the    *)
(* default limit of events or a small one: events are logged in the        *)
(* contexts of two tenants and outside any context, time passes, and the   *)
(* events are queried and counted.                                         *)
(***************************************************************************)
InitAuditStores ==
  /\ InitCtx
  /\ InitAuthDefault
  /\ \E version \in {"slice", "splice"}, maxEvents \in {Undefined, JsNum(0), JsNum(2)} :
        auditStore = NewAuditStore(version, maxEvents)
  /\ calls = [c \in 1..MaxCalls |-> NoInvocation]

AuditFilters ==
  { MkFilter(Undefined, JsStr(Str.read), Undefined),
    MkFilter(JsStr(Str.B), Undefined, JsStr(Str.success)) }

NextAudit ==
  \/ Tick
  \/ \E context \in {CtxA, CtxNoRoles, Undefined} :
        Log(context, MkLogInput(Str.read, Str.d1, Str.success,
                                [key \in {<<"a","p","i","K","e","y">>} |-> JsStr(Str.u1)]))
  \/ \E context \in {CtxA, Undefined}, filter \in AuditFilters : Query(context, filter)
  \/ \E context \in {CtxA, Undefined}, filter \in AuditFilters : Count(context, filter)

SpecAudit == InitAuditStores /\ [][NextAudit]_vars

(***************************************************************************)
(* A method decorated with @AuditAction is invoked in the context of a     *)
(* tenant or outside any context, concurrently with other invocations; it  *)
(* resolves, or rejects with an Error or with a string.                    *)
(***************************************************************************)
NextDecorator ==
  \/ Tick
  \/ \E c \in 1..MaxCalls, context \in {CtxA, Undefined},
        outcome \in { [kind |-> "resolve", message |-> <<>>],
                      [kind |-> "reject", message |-> Str.deny_doc],
                      [kind |-> "reject", message |-> <<>>] } :
        Invoke(c, context, <<Str.d1>>, outcome)
  \/ \E c \in 1..MaxCalls : Settle(c)
  \/ \E c \in 1..MaxCalls : RunImmediate(c)

SpecDecorator == InitDefault /\ [][NextDecorator]_vars

(***************************************************************************)
(* Requests to a Fastify server with the plugin registered: each request   *)
(* is a task of the event loop that runs the onRequest hook and then a     *)
(* preHandler hook requireRole('admin'), awaiting in between; the header   *)
(* names an active, a suspended or an unknown tenant or is missing, and    *)
(* the request is anonymous or made by a member or a non-member.           *)
(***************************************************************************)
NextFastify ==
  \/ \E a \in ActIds : Spawn(a)
  \/ \E a \in ActIds, allowNoTenant \in BOOLEAN,
        header \in {Undefined, JsStr(Str.A), JsStr(Str.B), JsStr(Str.ghost)},
        user \in {Undefined, MkUser(Str.u1, JsStr(Str.e1)), MkUser(Str.u2, JsStr(Str.e2))} :
        ResolveTenant(a, allowNoTenant, header, user)
  \/ \E rs \in {<<Str.admin>>, <<Str.member, Str.viewer>>} : RequireRole(rs)
  \/ Await(0)
  \/ \E a \in ActIds : Resume(a)
  \/ Return("ok", NoError)

SpecFastify == InitDefault /\ [][NextFastify]_vars

(***************************************************************************)
(* The policy engine with one unconditional allow policy whose action and  *)
(* resource patterns vary: literal names, stars at either end and inside,  *)
(* a star alone, a regex metacharacter; it is evaluated for actions and    *)
(* resource types that the patterns match, nearly match or do not match.   *)
(***************************************************************************)
NextPatterns ==
  \/ \E actions \in { <<Str.read>>, <<Str.star>>, <<Str.users_star>>,
                       <<Str.write, <<"*",":","r","e","a","d">>>>, <<<<"r","*","d">>>>, <<>> },
        resources \in { <<Str.doc>>, <<Str.docstar>>, <<Str.star>>,
                        <<Str.project, <<"d",".","c">>>> } :
        RegisterPolicy(MkPolicy(Str.allow_all, "allow", actions, resources, Undefined,
                                Undefined))
  \/ \E action \in { Str.read, Str.users_read, Str.users_NLread, <<"r","d">>,
                      <<"r","e","a","d","s">> },
        type \in { Str.doc, Str.project, <<"d","o","c","s">>, <<"d",".","c">> } :
        Evaluate(createContextFromTenant(CtxA, action, MkResource(type, Undefined, Undefined)))

SpecPatterns == InitDefault /\ [][NextPatterns]_vars

(***************************************************************************)
(* The decision cache under calls whose contexts differ in the user (a     *)
(* user, none, a user whose id is 'anonymous') and in the roles (two       *)
(* roles, one role whose name holds a comma), with and without a          *)
(* resource.                                                               *)
(***************************************************************************)
NextKeys ==
  \E user \in {Undefined, MkUser(Str.u1, JsStr(Str.e1)),
                 MkUser(Str.anonymous, JsStr(Str.e2))},
      roleNames \in {JsArr(<<Str.admin>>), JsArr(<<Str.admin, Str.member>>),
                     JsArr(<<Str.admin \o <<",">> \o Str.member>>)},
      resource \in {Undefined, DocOwnedBy1} :
      CanWithContext(MkContext(Str.A, user, roleNames), Str.read, resource)

SpecKeys == InitCache /\ [][NextKeys]_vars

(***************************************************************************)
(* The policy engine with an allow policy, a deny policy and a deny policy *)
(* with a condition, registered in any order with or without a priority,   *)
(* and evaluated for documents of two owners.                              *)
(***************************************************************************)
NextOrder ==
  \/ \E priority \in {Undefined, JsNum(5)} :
        \E policy \in
            { AllowDoc(priority), DenyDoc(priority),
              MkPolicy(Str.deny_u2, "deny", <<Str.write>>, <<Str.doc>>,
                       JsArr(<<MkCondition(<<"resource", "attributes", "ownerId">>,
                                           "eq", JsStr(Str.u2), Undefined)>>),
                       priority) } :
          RegisterPolicy(policy)
  \/ \E action \in {Str.read, Str.write}, resource \in {DocOwnedBy1, DocOwnedBy2} :
        Evaluate(createContextFromTenant(CtxA, action, resource))

SpecOrder == InitDefault /\ [][NextOrder]_vars

(***************************************************************************)
(* A manager with the cache enabled and one policy, which allows reading a *)
(* document to its owner; roles, hierarchy and policies stay as they are   *)
(* while decisions are asked for documents that share type and id and      *)
(* differ in their owner, and time passes.                                 *)
(***************************************************************************)
InitRefine ==
  /\ InitCtx
  /\ InitAudit
  /\ roles = CtorRoles(<<>>)
  /\ hierarchy = CtorHierarchy(<<>>)
  /\ policies = registerPolicy(<<>>, OwnerDoc)
  /\ defaultDeny = CtorDefaultDeny(Undefined)
  /\ cacheEnabled = CtorCacheEnabled(JsBool(TRUE))
  /\ cacheTTL = CtorCacheTTL(JsNum(ShortTTL))
  /\ cache = EmptyMap
  /\ now = 0
  /\ last = NoCall

NextRefine ==
  \/ Tick
  \/ \E context \in {CtxA, CtxNoRoles}, action \in {Str.read, Str.tenant_manage},
        resource \in {Undefined, DocOwnedBy1, DocOwnedBy2} :
        CanWithContext(context, action, resource)

SpecRefine == InitRefine /\ [][NextRefine]_vars

(***************************************************************************)
(* The context store on its own.                                           *)
(***************************************************************************)
SpecCtx == InitDefault /\ [][NextCtx]_vars

(***************************************************************************)
(* The role manager alone: it is constructed with or without a roles       *)
(* option, then roles are registered, the permission hierarchy of the      *)
(* build summary is set, and the permissions of roles are updated, added   *)
(* to and removed from, under registered and unregistered names.           *)
(***************************************************************************)
DocHierarchy ==
  << [parent |-> Str.users_manage,
      children |-> <<Str.users_read, Str.users_write, Str.users_delete>>],
     [parent |-> Str.projects_manage,
      children |-> <<Str.projects_read, Str.projects_write, Str.projects_delete>>],
     [parent |-> Str.admin_star,
      children |-> <<Str.users_manage, Str.projects_manage, Str.billing_manage>>] >>

RegisteredLater ==
  { MkRole(Str.ops, <<Str.admin_star>>),
    MkRole(Str.ops, <<Str.users_star>>),
    MkRole(Str.viewer, <<Str.tenant_read>>) }

InitRoles ==
  /\ InitCtx
  /\ InitAudit
  /\ \E options \in {<<>>, <<MkRole(Str.admin, <<Str.users_star>>)>>} :
        /\ roles = CtorRoles(options)
        /\ last = [op |-> "construct", roles |-> options]
  /\ hierarchy = CtorHierarchy(<<>>)
  /\ policies = <<>>
  /\ defaultDeny = CtorDefaultDeny(Undefined)
  /\ cacheEnabled = CtorCacheEnabled(Undefined)
  /\ cacheTTL = CtorCacheTTL(Undefined)
  /\ cache = EmptyMap
  /\ now = 0

NextRoles ==
  \/ \E role \in RegisteredLater : RegisterRole(role)
  \/ SetPermissionHierarchy(DocHierarchy)
  \/ \E roleName \in {Str.ops, Str.ghost},
        permissions \in {<<Str.users_read>>, <<Str.users_manage, Str.users_read>>} :
        \/ UpdateRolePermissions(roleName, permissions)
        \/ AddPermissionsToRole(roleName, permissions)
        \/ RemovePermissionsFromRole(roleName, permissions)

SpecRoles == InitRoles /\ [][NextRoles]_vars

(***************************************************************************)
(* Claims about the context store, checked under SpecCtx.                  *)
(***************************************************************************)
(* The permission hierarchy of a role manager: whole mappings and a        *)
(* mapping with one parent are set, children are added to a parent that    *)
(* has some and to one that has none, and a role is registered.            *)
(***************************************************************************)
NextHierarchy ==
  \/ \E entries \in { DocHierarchy,
                       <<[parent |-> Str.users_manage,
                          children |-> <<Str.users_read, Str.users_read>>]>>,
                       <<>> } :
        SetPermissionHierarchy(entries)
  \/ \E parent \in {Str.users_manage, Str.billing_manage},
        children \in {<<Str.users_invite>>, <<Str.users_read, Str.users_invite>>, <<>>} :
        AddPermissionImplication(parent, children)
  \/ RegisterRole(MkRole(Str.ops, <<Str.users_manage>>))

SpecHierarchy == InitRoles /\ [][NextHierarchy]_vars

(***************************************************************************)
Executing(a) == stack # <<>> /\ Top = a

\* activation a runs the fn of a run()/runAsync() call
IsFn(a) == acts[a].pc # "unused" /\ acts[a].ctx # Undefined

\* a and b are run() invocations neither of which is nested in the other
Concurrent(a, b) ==
  /\ a # b /\ IsFn(a) /\ IsFn(b)
  /\ acts[a].parent # b /\ acts[b].parent # a

\* C1: isolation.  Whatever the interleaving of the suspended invocations,
\* getContext() evaluated inside fn_i, in its first synchronous segment or
\* after any resumption, is the context_i its run() was called with.
C1_Isolation ==
  \A a \in ActIds : (Executing(a) /\ IsFn(a)) => getContext = acts[a].ctx

\* fn_a runs again after a suspension while a concurrent invocation with
\* another context, which has also been resumed once, is suspended
C1_Witness ==
  \E a, b \in ActIds :
    /\ Concurrent(a, b)
    /\ acts[a].ctx # acts[b].ctx
    /\ Executing(a) /\ ~acts[a].inRun
    /\ acts[b].pc = "await" /\ acts[b].cap = acts[b].ctx

\* C2: nesting.  Inside an inner run() the tenant id is the inner tenant's;
\* once the inner run() has returned to the outer fn (its fn having returned
\* or awaited), the outer fn observes its own context again.
C2_Nesting ==
  \A a \in ActIds :
    (Executing(a) /\ IsFn(a)) =>
      /\ (acts[a].parent # 0 /\ IsFn(acts[a].parent))
            => getCurrentTenantId = acts[a].ctx.tenant.id
      /\ (\E c \in ActIds : acts[c].parent = a /\ IsFn(c) /\ ~acts[c].inRun)
            => /\ getContext = acts[a].ctx
               /\ getCurrentTenantId = acts[a].ctx.tenant.id

\* the outer fn executes after an inner run() of another tenant returned a
\* pending promise (the inner fn awaited and is still suspended)
C2_Witness ==
  \E a, c \in ActIds :
    /\ Executing(a) /\ IsFn(a)
    /\ acts[c].parent = a /\ IsFn(c)
    /\ acts[c].pc = "await"
    /\ acts[c].ctx.tenant.id # acts[a].ctx.tenant.id

\* C3: failure.  When fn threw or its promise rejected, the caller of run()
\* receives that very error, and from then on observes the binding that was
\* current before the run() (undefined at top level).
C3_ErrorUnwinds ==
  \A p, c \in ActIds :
    (Executing(p) /\ acts[p].recv.from = c /\ acts[c].out = "err") =>
      /\ acts[p].recv.out = "err"
      /\ acts[p].recv.err = acts[c].err
      /\ getContext = acts[c].saved
      /\ getContext = acts[p].ctx

\* a top-level caller has caught the synchronous exception of a run()
C3_Witness ==
  \E p, c \in ActIds :
    /\ Executing(p) /\ acts[p].recv.from = c
    /\ acts[c].out = "err" /\ acts[c].sync
    /\ acts[p].ctx = Undefined /\ acts[c].ctx # Undefined

(***************************************************************************)
(* Claims about the policy engine, checked under SpecPolicy.  last is the  *)
(* latest evaluate() call: its context and the value it returned.          *)
(***************************************************************************)
\* every condition of the policy is true of the context; none when the list
\* is absent or empty
AllConditionsTrue(policy, context) ==
  \/ policy.conditions = Undefined
  \/ \A i \in 1..Len(policy.conditions.v) :
        evaluateCondition(policy.conditions.v[i], context)

\* a registered policy of this effect applies to the context and is satisfied
ApplicableSatisfied(effect, context) ==
  \E i \in 1..Len(policies) :
    /\ policies[i].effect = effect
    /\ IsApplicable(policies[i], context)
    /\ AllConditionsTrue(policies[i], context)

\* C4: when an allow policy and a deny policy both apply to the evaluated
\* context and both have all their conditions true, evaluate returns false,
\* whatever the priorities of the policies and the order of registration.
C4_DenyOverride ==
  last.op = "evaluate" =>
    ((ApplicableSatisfied("allow", last.context)
       /\ ApplicableSatisfied("deny", last.context)) => last.result = FALSE)

\* an allow policy registered first and of higher priority than a satisfied
\* deny policy, and evaluate has returned false
C4_Witness ==
  /\ last.op = "evaluate"
  /\ last.result = FALSE
  /\ \E i, j \in 1..Len(policies) :
       /\ i < j
       /\ policies[i].effect = "allow" /\ policies[j].effect = "deny"
       /\ PriorityOf(policies[i]) > PriorityOf(policies[j])
       /\ IsApplicable(policies[i], last.context)
       /\ IsApplicable(policies[j], last.context)
       /\ AllConditionsTrue(policies[i], last.context)
       /\ AllConditionsTrue(policies[j], last.context)

\* C8: evaluate returns true exactly when some applicable allow policy has
\* all its conditions true (an absent or empty list counting as true) and no
\* applicable deny policy is satisfied; otherwise, also with no policy
\* registered or none applicable, it returns false.
C8_DefaultDeny ==
  last.op = "evaluate" =>
    (last.result = TRUE <=>
       (ApplicableSatisfied("allow", last.context)
         /\ ~ApplicableSatisfied("deny", last.context)))

\* policies are registered, none applies to the context, evaluate returned false
C8_Witness ==
  /\ last.op = "evaluate"
  /\ policies # <<>>
  /\ \A i \in 1..Len(policies) : ~IsApplicable(policies[i], last.context)
  /\ last.result = FALSE

\* resource.attributes.ownerId === subject.id in the evaluated context
OwnerIsSubject(context) ==
  StrictEq(getAttributeValue(<<"resource", "attributes", "ownerId">>, context),
           context.subject.id)

\* C9: with createOwnershipPolicy(T) registered as the only policy, evaluate
\* returns true for read, write and delete on a resource of type T exactly
\* when resource.attributes.ownerId equals subject.id.
C9_OwnershipPolicy ==
  (/\ last.op = "evaluate"
   /\ policies = <<createOwnershipPolicy(Str.doc)>>
   /\ last.context.action \in {Str.read, Str.write, Str.delete}
   /\ last.context.resource.type = Str.doc)
    => (last.result = TRUE <=> OwnerIsSubject(last.context))

(***************************************************************************)
(* Claims about the authorization manager.  last is the latest call of the *)
(* manager: its arguments, the context it ran in and what it returned.     *)
(***************************************************************************)
\* the expanded permissions of the context's roles, none without roles
EffectivePermissions(context) ==
  IF context.roles = Undefined THEN <<>>
  ELSE getPermissionsForRoles(context.roles.v)

RECURSIVE Glob(_, _)
\* glob matching: a star stands for any run of characters, every other
\* character for itself
Glob(pattern, str) ==
  IF pattern = <<>> THEN str = <<>>
  ELSE IF Head(pattern) = "*"
       THEN \E k \in 0..Len(str) : Glob(Tail(pattern), SubSeq(str, k + 1, Len(str)))
       ELSE str # <<>> /\ Head(str) = Head(pattern) /\ Glob(Tail(pattern), Tail(str))

\* the action is a member of the permissions, or a permission holding a star
\* matches it, where Matches(permission, action) is the matching relation
RbacGrants(context, action, Matches(_, _)) ==
  LET permissions == EffectivePermissions(context) IN
  \E i \in 1..Len(permissions) :
    \/ permissions[i] = action
    \/ Includes(permissions[i], "*") /\ Matches(permissions[i], action)

\* the pattern matching of the manager, pattern first
ManagerMatches(pattern, str) == matchesWildcard(str, pattern)

\* a resource is supplied and the policy engine evaluates to true
AbacGrants(context, action, resource) ==
  resource # Undefined /\ evaluate(createContextFromTenant(context, action, resource))

\* RBAC or ABAC grants the latest call
GrantedByEither ==
  \/ RbacGrants(last.context, last.action, ManagerMatches)
  \/ AbacGrants(last.context, last.action, last.resource)

\* C5 (as amended): when canWithContext returns no cached decision (the cache
\* is disabled, or holds no unexpired entry under the call's key) it returns
\* true iff the expanded permissions of context.roles grant the action or a
\* resource is supplied and the policy engine evaluates to true.
C5_OrWhenNotCached ==
  (last.op = "canWithContext" /\ ~last.hit) => (last.result = GrantedByEither)

\* C5 (as stated): canWithContext returns true iff RBAC grants the action or
\* a resource is supplied and the policy engine evaluates to true.
C5_OrAlways ==
  last.op = "canWithContext" => (last.result = GrantedByEither)

\* an uncached call with a resource that RBAC grants and a satisfied deny
\* policy refuses: canWithContext has returned true
C5_Witness ==
  /\ last.op = "canWithContext" /\ ~last.hit
  /\ last.resource # Undefined
  /\ RbacGrants(last.context, last.action, ManagerMatches)
  /\ ApplicableSatisfied("deny",
        createContextFromTenant(last.context, last.action, last.resource))
  /\ last.result = TRUE

\* C6: can() called with no context bound returns !defaultDeny, which is true
\* only for a manager constructed with defaultDeny: false, and the call
\* leaves the cache, the roles and the policies as they were.
C6_NoContext ==
  /\ \A opt \in DefaultDenyOptions :
       ~CtorDefaultDeny(opt) <=> opt = JsBool(FALSE)
  /\ [][(last' # last /\ last'.op = "can" /\ last'.context = Undefined) =>
          /\ last'.result = ~defaultDeny
          /\ cache' = cache
          /\ <<roles, hierarchy, policies>>' = <<roles, hierarchy, policies>>]_vars

\* can() has returned true with no context bound while the cache holds a
\* decision
C6_Witness ==
  /\ last.op = "can" /\ last.context = Undefined
  /\ last.result = TRUE
  /\ cache # EmptyMap

\* C7: with no resource (and no cache), canWithContext grants the action iff
\* it is a member of the expanded permissions of context.roles or a
\* permission holding a star glob-matches it; so the permission made of a
\* star alone grants every action.
C7_RbacGlob ==
  (last.op = "canWithContext" /\ last.resource = Undefined) =>
    (last.result = RbacGrants(last.context, last.action, Glob))

\* C10: require rejects iff authorize does not allow; the error carries the
\* action, the resource and, in its message, the reasons joined; when
\* authorize allows, require resolves with no error.
C10_Require ==
  last.op = "require" =>
    LET decision == authorize(last.context, last.action, last.resource)
        outcome == last.result
    IN /\ outcome.threw <=> ~decision.allowed
       /\ outcome.threw =>
            /\ outcome.error.code = "UNAUTHORIZED"
            /\ outcome.error.action = last.action
            /\ outcome.error.resource = last.resource
            /\ outcome.error.message =
                 <<Text("Unauthorized: ")>> \o Join(decision.reasons, <<Text("; ")>>)
       /\ ~outcome.threw => outcome.error = Undefined

\* require has rejected a call on a resource that the policy engine refused
C10_Witness ==
  /\ last.op = "require"
  /\ last.result.threw
  /\ last.resource # Undefined
  /\ last.result.error.resource = last.resource
  /\ last.result.error.message = <<Text("Unauthorized: ")>> \o AbacDenyReason

\* can would return a cached decision for the arguments of the latest call
CanIsCached ==
  last.context # Undefined /\ CacheHit(last.context, last.action, last.resource)

\* C11 (as amended): authorize(action, resource).allowed equals what
\* can(action, resource) resolves to on the same manager whenever can does
\* not answer from the cache (no context is bound, the cache is disabled, or
\* it holds no unexpired entry under the call's key).
C11_AuthorizeAsCanWhenNotCached ==
  (last.op = "authorize" /\ ~CanIsCached) =>
    (last.result.allowed = can(last.context, last.action, last.resource))

\* C11 (as stated): authorize(action, resource).allowed equals what
\* can(action, resource) resolves to, after any earlier calls and changes.
C11_AuthorizeAsCan ==
  last.op = "authorize" =>
    (last.result.allowed = can(last.context, last.action, last.resource))

\* authorize has allowed a call in a bound context after earlier calls left
\* an entry under its key that has expired
C11_Witness ==
  /\ last.op = "authorize"
  /\ last.context # Undefined
  /\ MapHas(cache, getCacheKey(last.context, last.action, last.resource))
  /\ ~CanIsCached
  /\ last.result.allowed

Elems(arr) == {arr[i] : i \in 1..Len(arr)}

NoDuplicates(arr) == \A i, j \in 1..Len(arr) : arr[i] = arr[j] => i = j

\* C19: hasAllRoles([]) is true and hasAnyRole([]) is false in every state
\* of the context store: no context bound, a context without roles, and a
\* context with roles; for a list that is not empty the two follow the
\* current roles.
C19_EmptyRoleLists ==
  /\ hasAllRoles(<<>>)
  /\ ~hasAnyRole(<<>>)
  /\ \A rs \in {<<Str.admin>>, <<Str.admin, Str.viewer>>} :
        /\ hasAllRoles(rs) <=> Elems(rs) \subseteq Elems(getCurrentRoles)
        /\ hasAnyRole(rs) <=> Elems(rs) \cap Elems(getCurrentRoles) # {}

\* a callback runs in a context that has no roles, started from one that
\* runs in a context with roles, while a third task has no context bound
C19_Witness ==
  /\ getContext # Undefined
  /\ getContext.roles = Undefined
  /\ \E a \in ActIds : acts[a].saved # Undefined /\ acts[a].saved.roles # Undefined
  /\ \E a \in ActIds : acts[a].pc # "unused" /\ acts[a].ctx = Undefined

\* the condition's attribute path does not resolve in the context, or its
\* comparison is between values of different types
Unresolvable(condition, context) ==
  LET value == getAttributeValue(condition.attribute, context) IN
  \/ value = Undefined
  \/ /\ condition.operator \in {"eq", "neq", "gt", "gte", "lt", "lte"}
     /\ value.t # condition.value.t

\* C20: evaluate completes with a boolean, and a condition whose attribute
\* path is missing or malformed, or whose comparison is between values of
\* different types, evaluates to false whatever its operator, so that the
\* allow policy it guards does not grant.
C20_FailsClosed ==
  last.op = "evaluate" =>
    /\ last.result \in BOOLEAN
    /\ \A i \in 1..Len(policies) : \A k \in 1..Len(policies[i].conditions.v) :
          Unresolvable(policies[i].conditions.v[k], last.context) =>
            /\ ~evaluateCondition(policies[i].conditions.v[k], last.context)
            /\ ~last.result

(***************************************************************************)
(* Claims about the role manager, checked under SpecRoles.                 *)
(***************************************************************************)
\* the permissions of a list together with what the hierarchy implies
\* directly for each of them
DirectlyImplied(permissions) ==
  Elems(permissions) \cup
    UNION {Elems(hierarchy[p]) : p \in Elems(permissions) \cap DOMAIN hierarchy}

\* C12: getRolePermissions(R) holds exactly the declared permissions of R
\* and, for each declared permission that is a key of the hierarchy, its
\* directly implied permissions, each once; a permission implied only
\* through a second level of the hierarchy is not in it.
C12_OneLevelExpansion ==
  \A name \in DOMAIN roles :
    /\ NoDuplicates(getRolePermissions(name))
    /\ Elems(getRolePermissions(name)) = DirectlyImplied(roles[name].permissions)

\* a role declares only 'admin:*', the hierarchy maps 'admin:*' to
\* 'users:manage' and 'users:manage' to 'users:read': the role's permissions
\* hold 'users:manage' and not 'users:read'
C12_Witness ==
  /\ MapHas(roles, Str.ops)
  /\ roles[Str.ops].permissions = <<Str.admin_star>>
  /\ MapHas(hierarchy, Str.admin_star)
  /\ Includes(hierarchy[Str.admin_star], Str.users_manage)
  /\ MapHas(hierarchy, Str.users_manage)
  /\ Includes(hierarchy[Str.users_manage], Str.users_read)
  /\ Includes(getRolePermissions(Str.ops), Str.admin_star)
  /\ Includes(getRolePermissions(Str.ops), Str.users_manage)
  /\ ~Includes(getRolePermissions(Str.ops), Str.users_read)

\* C13: once the hierarchy of the build summary is set, the permissions of
\* a role that declares 'admin:*' hold every permission implied by
\* 'users:manage' and 'projects:manage' ('users:read', for example), not
\* only those parents.
C13_AdminStarIncludesAll ==
  \A name \in DOMAIN roles :
    ( /\ hierarchy = setPermissionHierarchy(EmptyMap, DocHierarchy)
      /\ Includes(roles[name].permissions, Str.admin_star) )
    => \A i \in 1..Len(DocHierarchy) :
         Elems(DocHierarchy[i].children) \subseteq Elems(getRolePermissions(name))

\* C14: roleHasPermission and rolesHavePermission are exact membership in
\* the expanded permissions, with no wildcard matching: a role with only
\* 'users:*' does not have 'users:read', and the default admin, with no
\* hierarchy, has 'tenant:manage' and not 'tenant:read'.
C14_ExactMembership ==
  /\ \A name \in DOMAIN roles \cup {Str.ghost},
        permission \in {Str.users_read, Str.users_star, Str.tenant_read,
                        Str.tenant_manage, Str.users_manage} :
        /\ roleHasPermission(name, permission) <=>
             ( /\ MapHas(roles, name)
               /\ permission \in DirectlyImplied(roles[name].permissions) )
        /\ rolesHavePermission(<<Str.ghost, name>>, permission) <=>
             roleHasPermission(name, permission)
        /\ rolesHavePermission(<<name, Str.member>>, permission) <=>
             (roleHasPermission(name, permission)
                \/ roleHasPermission(Str.member, permission))
  /\ \A name \in DOMAIN roles :
        roles[name].permissions = <<Str.users_star>> =>
          ~roleHasPermission(name, Str.users_read)
  /\ (hierarchy = EmptyMap /\ roles[Str.admin] = DefaultRoles[1]) =>
        /\ roleHasPermission(Str.admin, Str.tenant_manage)
        /\ ~roleHasPermission(Str.admin, Str.tenant_read)

\* a role whose only permission is 'users:*' is registered and is asked for
\* 'users:read'
C14_Witness ==
  /\ MapHas(roles, Str.ops)
  /\ roles[Str.ops].permissions = <<Str.users_star>>
  /\ roleHasPermission(Str.ops, Str.users_star)
  /\ ~roleHasPermission(Str.ops, Str.users_read)
  /\ ~rolesHavePermission(<<Str.ghost, Str.ops>>, Str.users_read)

MutatorOps == {"updateRolePermissions", "addPermissionsToRole", "removePermissionsFromRole"}

\* C15: updateRolePermissions, addPermissionsToRole and
\* removePermissionsFromRole throw exactly when the role name is not
\* registered; the error is "Role not found: <name>", and the call that
\* throws leaves the role map and the permission hierarchy as they were.
C15_MutatorsThrowWhenMissing ==
  [][ last'.op \in MutatorOps =>
        /\ last'.threw <=> ~MapHas(roles, last'.roleName)
        /\ last'.threw =>
             /\ last'.error.message =
                  <<Text("Role not found: "), Interp(last'.roleName)>>
             /\ roles' = roles
             /\ hierarchy' = hierarchy ]_vars

\* a mutator was called with a name that is not registered and threw, while
\* other roles are registered and the hierarchy is set
C15_Witness ==
  /\ last.op \in MutatorOps
  /\ last.roleName = Str.ghost
  /\ last.threw
  /\ ~MapHas(roles, Str.ghost)
  /\ MapHas(roles, Str.ops)
  /\ hierarchy # EmptyMap

\* C16: registerRole(role) inserts or overwrites by name: afterwards
\* getRole(role.name) is the role passed in, getRolePermissions(role.name)
\* is the expansion of its permissions alone, every other role is as it was,
\* and the number of roles has grown by one when the name was new and not at
\* all when it was taken.
C16_RegisterOverwrites ==
  [][ \A role \in RegisteredLater :
        last' = [op |-> "registerRole", role |-> role] =>
          /\ getRole(role.name)' = role
          /\ Elems(getRolePermissions(role.name))' = DirectlyImplied(role.permissions)'
          /\ \A name \in DOMAIN roles \ {role.name} : getRole(name)' = getRole(name)
          /\ Cardinality(DOMAIN roles') =
               Cardinality(DOMAIN roles) + (IF MapHas(roles, role.name) THEN 0 ELSE 1) ]_vars

\* 'viewer', registered at construction, was registered again with other
\* permissions: none of the first definition's permissions is left and the
\* three default names are still the only ones
C16_Witness ==
  /\ last.op = "registerRole"
  /\ last.role.name = Str.viewer
  /\ getRole(Str.viewer) = last.role
  /\ getRolePermissions(Str.viewer) = <<Str.tenant_read>>
  /\ \A i \in 1..Len(DefaultRoles[3].permissions) :
        ~Includes(getRolePermissions(Str.viewer), DefaultRoles[3].permissions[i])
  /\ Cardinality(DOMAIN roles) = 3

\* C17: right after construction admin, member and viewer are registered;
\* a role of the roles option is the one in effect under its name, the
\* other defaults have their default definition; a role registered later
\* with registerRole is the one in effect under its name.
C17_DefaultRoles ==
  /\ last.op = "construct" =>
        /\ {Str.admin, Str.member, Str.viewer} \subseteq DOMAIN roles
        /\ \A i \in 1..Len(last.roles) : getRole(last.roles[i].name) = last.roles[i]
        /\ \A i \in 1..Len(DefaultRoles) :
              (\A j \in 1..Len(last.roles) : last.roles[j].name # DefaultRoles[i].name)
                => getRole(DefaultRoles[i].name) = DefaultRoles[i]
  /\ last.op = "registerRole" => getRole(last.role.name) = last.role

\* the manager was constructed with a roles option that defines 'admin'
C17_Witness ==
  /\ last.op = "construct"
  /\ Len(last.roles) = 1
  /\ last.roles[1].name = Str.admin
  /\ getRole(Str.admin).permissions = <<Str.users_star>>
  /\ getRole(Str.member) = DefaultRoles[2]

ProbedRoleLists ==
  { <<>>, <<Str.ghost>>, <<Str.ghost, Str.viewer>>, <<Str.admin, Str.viewer>>,
    <<Str.ops, Str.ghost, Str.member, Str.ops>> }

\* C18: getRolePermissions of a name that is not registered is the empty
\* list, and getPermissionsForRoles(names) holds, each once, exactly the
\* permissions of getRolePermissions over the names, so that unregistered
\* names contribute nothing.
C18_UnregisteredAndUnion ==
  /\ \A name \in {Str.ghost, Str.ops} :
        ~MapHas(roles, name) => getRolePermissions(name) = <<>>
  /\ \A names \in ProbedRoleLists :
        /\ NoDuplicates(getPermissionsForRoles(names))
        /\ Elems(getPermissionsForRoles(names)) =
             UNION {Elems(getRolePermissions(names[i])) : i \in 1..Len(names)}

\* roles that share permissions and an unregistered name are asked for
\* together
C18_Witness ==
  /\ MapHas(roles, Str.ops)
  /\ hierarchy # EmptyMap
  /\ ~MapHas(roles, Str.ghost)
  /\ getRolePermissions(Str.ghost) = <<>>
  /\ Elems(getRolePermissions(Str.admin)) \cap Elems(getRolePermissions(Str.viewer)) # {}
  /\ getPermissionsForRoles(<<Str.ghost, Str.viewer>>) = getRolePermissions(Str.viewer)
  /\ getPermissionsForRoles(<<Str.ghost>>) = <<>>


(***************************************************************************)
(* Audit logging.                                                          *)
(***************************************************************************)
\* the events of the store that were logged for invocation c
EventsOf(c) ==
  {i \in 1..Len(auditStore.events) : auditStore.events[i].id = calls[c].event}

\* C22: when the promise returned by a method decorated with @AuditAction
\* has settled, exactly one audit event of that invocation is already in the
\* store, with result 'success' when the method resolved and 'failure', with
\* the error message in metadata.error, when it rejected
C22_LoggedWhenSettled ==
  \A c \in 1..MaxCalls :
    calls[c].pc \in {"settled", "logged"} =>
      /\ calls[c].event # 0
      /\ Cardinality(EventsOf(c)) = 1
      /\ \A i \in EventsOf(c) :
            LET event == auditStore.events[i] IN
            IF calls[c].outcome.kind = "resolve"
            THEN event.result = Str.success
            ELSE /\ event.result = Str.failure
                 /\ <<"e","r","r","o","r">> \in DOMAIN event.metadata
                 /\ event.metadata[<<"e","r","r","o","r">>] = JsStr(calls[c].outcome.message)

\* the events that query and count are to cover for a filter that names no
\* tenant: those of the bound tenant, or of every tenant outside any context
TenantScoped(context, filter) ==
  {i \in 1..Len(auditStore.events) :
     LET event == auditStore.events[i] IN
     /\ matchesFilter(event, filter)
     /\ context # Undefined => event.tenant = JsStr(context.tenant.id)}

\* C23: with a tenant context bound and no tenant in the filter,
\* AuditLogger.query and count cover that tenant's matching events only;
\* with no context bound and no tenant in the filter they cover the matching
\* events of every tenant
C23_TenantScopedQueries ==
  (last.op \in {"query", "count"} /\ last.filter.tenant = Undefined) =>
     LET scoped == {auditStore.events[i] : i \in TenantScoped(last.context, last.filter)} IN
     IF last.op = "query"
     THEN /\ Elems(last.result) = scoped
          /\ Len(last.result) = Cardinality(scoped)
     ELSE last.result = Cardinality(scoped)

C23_Witness ==
  /\ last.op = "query"
  /\ last.context = CtxA
  /\ last.filter.tenant = Undefined
  /\ Len(last.result) = 1
  /\ \E i \in 1..Len(auditStore.events) : auditStore.events[i].tenant = JsStr(Str.B)
  /\ \E i \in 1..Len(auditStore.events) : auditStore.events[i].tenant = Undefined

\* C24: a store constructed with the limit maxEvents holds at most maxEvents
\* events, and they are the most recently stored ones in insertion order
C24_MostRecentKept ==
  LET events == getAll(auditStore)
      kept == IF auditStore.stored < auditStore.maxEvents THEN auditStore.stored
              ELSE auditStore.maxEvents
  IN /\ Len(events) <= auditStore.maxEvents
     /\ Len(events) = kept
     /\ \A i \in 1..Len(events) : events[i].id = auditStore.stored - Len(events) + i


(***************************************************************************)
(* The Fastify plugin.                                                     *)
(***************************************************************************)
\* C21: once the onRequest hook has resolved an active tenant for a request,
\* tenantContext.getContext() in a later hook of that request (the
\* preHandler requireRole) returns the context the hook built
C21_ContextVisibleAfterHook ==
  (last.op = "requireRole" /\ last.context # Undefined) =>
     /\ last.seen = last.context
     /\ last.current = last.request.tenantRoles


(***************************************************************************)
(* Pattern matching of the policy engine.                                  *)
(***************************************************************************)
\* C25: a policy is applicable to a context iff one of its action patterns
\* matches context.action and one of its resource patterns matches
\* context.resource.type, where a pattern matches a whole string, each star
\* standing for any run of characters (the empty one too) and every other
\* character for itself
C25_ApplicableByGlob ==
  last.op = "evaluate" =>
    \A i \in 1..Len(policies) :
      LET policy == policies[i] IN
      IsApplicable(policy, last.context) <=>
        /\ \E j \in 1..Len(policy.actions) : Glob(policy.actions[j], last.context.action)
        /\ \E j \in 1..Len(policy.resources) :
              Glob(policy.resources[j], last.context.resource.type)


(***************************************************************************)
(* The decision cache.                                                     *)
(***************************************************************************)
\* a step of canWithContext: it sets last, and a call that repeats the
\* latest one leaves last as it is and is told by the cache it rewrites
IsCanWithContextStep ==
  last'.op = "canWithContext" /\ (last' # last \/ cache' # cache)

\* C26: with the cache enabled, a canWithContext call whose key was cached
\* less than cacheTTL milliseconds earlier returns the cached decision and
\* leaves the cache alone, whatever the roles, hierarchy and policies have
\* become; when cacheTTL milliseconds or more have passed, or nothing is
\* cached under the key, the call computes the decision afresh and writes it
\* over the entry with the current time
C26_StaleWithinTTLOnly ==
  [][IsCanWithContextStep =>
       LET key == getCacheKey(last'.context, last'.action, last'.resource)
           fresh == Decide(last'.context, last'.action, last'.resource)
       IN /\ cacheEnabled
          /\ IF MapHas(cache, key) /\ now - cache[key].timestamp < cacheTTL
             THEN /\ last'.result = cache[key].decision
                  /\ cache' = cache
             ELSE /\ last'.result = fresh
                  /\ cache' = MapSet(cache, key, [decision |-> fresh, timestamp |-> now])]_vars

\* canWithContext has answered from the cache with a decision that the
\* policies registered since no longer give
C26_Witness ==
  /\ last.op = "canWithContext" /\ last.hit
  /\ policies # <<>>
  /\ last.result # Decide(last.context, last.action, last.resource)


\* what a canWithContext call is cached for: tenant id, user id, roles,
\* action, resource type and resource id, each as passed (Undefined: absent)
KeyTuple(call) ==
  <<call.context.tenant.id,
    IF call.context.user = Undefined THEN Undefined ELSE JsStr(call.context.user.id),
    call.context.roles,
    call.action,
    IF call.resource = Undefined THEN Undefined ELSE JsStr(call.resource.type),
    IF call.resource = Undefined THEN Undefined ELSE call.resource.id>>

\* C27: the cache keys of two calls that differ in tenant id, user id, roles
\* list, action, resource type or resource id differ
C27_KeysDoNotCollide ==
  [][(last.op = "canWithContext" /\ last'.op = "canWithContext"
        /\ KeyTuple(last) # KeyTuple(last')) =>
       getCacheKey(last.context, last.action, last.resource)
         # getCacheKey(last'.context, last'.action, last'.resource)]_vars


(***************************************************************************)
(* The permission hierarchy.                                               *)
(***************************************************************************)
\* the parents that the entries of a mapping name
Parents(entries) == {entries[i].parent : i \in 1..Len(entries)}

\* the permissions implied by parent in hierarchy h, none when it has no entry
ImpliedBy(h, parent) == IF MapHas(h, parent) THEN Elems(h[parent]) ELSE {}

\* parent has the same entry, or none, in the hierarchy before and after
SameEntry(parent) ==
  /\ MapHas(hierarchy', parent) <=> MapHas(hierarchy, parent)
  /\ ImpliedBy(hierarchy', parent) = ImpliedBy(hierarchy, parent)

\* C28: setPermissionHierarchy(mapping) makes the implied set of each parent
\* named in the mapping the children given for it and leaves every other
\* parent's entry and all role definitions as they were;
\* addPermissionImplication(parent, children) adds the children to the
\* implied set of parent, removes nothing from it and leaves the other
\* parents and the roles as they were
C28_HierarchyFrame ==
  [][(last' # last \/ hierarchy' # hierarchy) =>
       /\ last'.op = "setPermissionHierarchy" =>
            /\ \A i \in 1..Len(last'.entries) :
                  ImpliedBy(hierarchy', last'.entries[i].parent)
                    = Elems(last'.entries[i].children)
            /\ \A parent \in (DOMAIN hierarchy \cup DOMAIN hierarchy')
                                \ Parents(last'.entries) : SameEntry(parent)
            /\ roles' = roles
       /\ last'.op = "addPermissionImplication" =>
            /\ ImpliedBy(hierarchy', last'.parent)
                  = ImpliedBy(hierarchy, last'.parent) \cup Elems(last'.children)
            /\ NoDuplicates(hierarchy'[last'.parent])
            /\ \A parent \in (DOMAIN hierarchy \cup DOMAIN hierarchy') \ {last'.parent} :
                  SameEntry(parent)
            /\ roles' = roles]_vars

\* children have been added to a parent whose entry held others, and a
\* parent of the mapping set before keeps its entry
C28_Witness ==
  /\ last.op = "addPermissionImplication"
  /\ last.parent = Str.users_manage
  /\ ImpliedBy(hierarchy, Str.users_manage)
       = {Str.users_read, Str.users_write, Str.users_delete, Str.users_invite}
  /\ MapHas(hierarchy, Str.admin_star)
  /\ MapHas(roles, Str.ops)


(***************************************************************************)
(* Priorities and registration order.                                      *)
(***************************************************************************)
\* the policies of list registered in another order and with other
\* priorities (none, negative, positive)
Rearranged(list) ==
  LET n == Len(list) IN
  { [i \in 1..n |-> [list[order[i]] EXCEPT !.priority = priority[i]]] :
      order \in {f \in [1..n -> 1..n] : \A i, j \in 1..n : f[i] = f[j] => i = j},
      priority \in [1..n -> {Undefined, JsNum(0 - 1), JsNum(7)}] }

\* C29: what evaluate returns for a context is the same for every order of
\* registration and every assignment of priorities to the registered
\* policies
C29_OrderAndPriorityFree ==
  last.op = "evaluate" =>
    \A list \in Rearranged(policies) :
      EvaluateSorted(SortByPriority(Filter(list, last.context)), last.context) = last.result

\* evaluate has returned false where an allow policy and a deny policy apply
\* and are satisfied and the allow policy has the higher priority
C29_Witness ==
  /\ last.op = "evaluate"
  /\ last.result = FALSE
  /\ \E i, j \in 1..Len(policies) :
        /\ policies[i].effect = "allow" /\ policies[j].effect = "deny"
        /\ PriorityOf(policies[i]) > PriorityOf(policies[j])
        /\ i < j
        /\ IsApplicable(policies[i], last.context) /\ IsApplicable(policies[j], last.context)
        /\ evaluateConditions(policies[i], last.context)
        /\ evaluateConditions(policies[j], last.context)


(***************************************************************************)
(* The cache as an optimisation.                                           *)
(***************************************************************************)
\* C30: while roles, hierarchy and policies stay fixed, a manager with the
\* cache enabled returns for every canWithContext call what a manager with
\* the cache disabled returns, which is the decision computed afresh
C30_CacheTransparent ==
  last.op = "canWithContext" =>
    last.result = Decide(last.context, last.action, last.resource)

====
